---- MODULE Spec2Model ----
(***************************************************************************)
(* Intel(R) Trace Hub Memory Storage Unit (drivers/hwtracing/intel_th/     *)
(* msu.c): the buffer/window/block storage engine, its usage counter and   *)
(* its consumption iterator, as a state machine.                           *)
(*                                                                         *)
(* Pages are scaled down: a page is 2^PAGE_SHIFT bytes of which the first  *)
(* MSC_BDESC are the block descriptor.  A byte of buffer memory is named   *)
(* by its physical address, so two reads deliver "the same bytes" exactly  *)
(* when they deliver the same addresses.  Code under buf_mutex that does   *)
(* not touch the atomics is one step; the atomics are steps of their own.  *)
(***************************************************************************)
EXTENDS Integers, Sequences, FiniteSets, TLC

\* ---------------------------------------------------------------- bounds
PAGE_SHIFT == 2
MaxBlocks == 3
MaxWins == 2
MaxPfn == 3
NThreads == 2
NSessions == 1
MaxVmas == 2
MaxUsers == 2
MaxUnder == 1
MaxLen == 2
MaxRules == 3
MaxPref == 2

\* ------------------------------------------------------- program constants
MSC_MODE_SINGLE == 0
MSC_MODE_MULTI == 1
MSC_MODE_EXI == 2
MSC_MODE_DEBUG == 3

\* unsigned long arithmetic wraps; the width is scaled to what TLC's
\* integers hold
ULONG_MOD == 2^24

PAGE_SIZE == 2^PAGE_SHIFT
\* msu.h: size of struct msc_block_desc, the header at the start of a block
MSC_BDESC == 1
\* msu.h: DATA_IN_PAGE
DATA_IN_PAGE == PAGE_SIZE - MSC_BDESC

Modes == {MSC_MODE_SINGLE, MSC_MODE_MULTI, MSC_MODE_EXI, MSC_MODE_DEBUG}
PFNs == 0..MaxPfn
WIDs == 1..(MaxWins + 1)
Threads == 1..NThreads
Sessions == 1..NSessions
NULL == 0
NOPAGE == -1

\* the element of a one-element set; {e : x \in {v}} is e with x the value v
The(s) == CHOOSE x \in s : TRUE

Min(a, b) == IF a < b THEN a ELSE b
Max(a, b) == IF a < b THEN b ELSE a
SeqSum(s) == LET RECURSIVE sum(_)
                 sum(i) == IF i = 0 THEN 0 ELSE s[i] + sum(i - 1)
             IN sum(Len(s))
Restrict(f, D) == [x \in D |-> f[x]]
Range(s) == {s[i] : i \in DOMAIN s}

\* x & y on naturals, bit by bit
RECURSIVE BitAnd(_, _)
BitAnd(x, y) ==
    IF x = 0 \/ y = 0 THEN 0
    ELSE (x % 2) * (y % 2) + 2 * BitAnd(x \div 2, y \div 2)

\* ------------------------------------------------------------------ state
VARIABLES
    msc,            \* struct msc
    wins,           \* the live struct msc_window objects, by window id
    mem,            \* the block descriptors of the live DMA pages, by page frame
    pages,          \* page frames currently held from the page/DMA allocators
    files,          \* reader sessions: file->private_data (iterator) and f_pos
    vmas,           \* number of live mappings (vm_area_structs) of the buffer
    output_active,  \* the core's thdev->output.active: activate was called
    buf_mutex,      \* msc::buf_mutex: 0 or the thread holding it
    pc,             \* where each thread stands inside the handler it runs
    loc,            \* the running handler's locals
    ret,            \* what each thread's last finished handler returned
    ghost,          \* history: an allocate just done, and the frames in use before it
    ops             \* struct fib_rules_ops: the rules list, the rules, the goto counters

vars == <<msc, wins, mem, pages, files, vmas, output_active, buf_mutex,
          pc, loc, ret, ghost, ops>>

\* struct msc after intel_th_msc_init() on a zeroed allocation
msc_init ==
    [win_list |-> <<>>, nr_pages |-> 0, single_sz |-> 0, single_wrap |-> FALSE,
     base |-> NULL, base_addr |-> 0, nwsa |-> 0,
     user_count |-> -1, mmap_count |-> 0, iter_list |-> <<>>,
     enabled |-> FALSE, wrap |-> FALSE, mode |-> MSC_MODE_MULTI,
     max_blocks |-> 0]

\* a zeroed struct msc_block_desc
ZeroDesc ==
    [sw_tag |-> {}, hw_tag |-> {}, valid_dw |-> 0,
     next_blk |-> 0, next_win |-> 0, block_sz |-> 0]

\* The kernel state the buffer code works on, as one value: the operators
\* below are the C functions, from such a value to the next.  dma_left and
\* kz_left say how many more dma_alloc_coherent()/kzalloc() calls succeed.
KState(m, w, d, p, dl, kl) ==
    [msc |-> m, wins |-> w, mem |-> d, pages |-> p,
     dma_left |-> dl, kz_left |-> kl, ret |-> "OK",
     got |-> {}, released |-> {}]


Last(s) == s[Len(s)]
Addr(pfn) == pfn * PAGE_SIZE
Pfn(addr) == addr \div PAGE_SIZE
\* win->block[i], i counted from 0 as in the C array
Blk(win, i) == win.block[i + 1]
LowestOf(set) == CHOOSE p \in set : \A q \in set : p <= q

\* ------------------------------------------------ single mode: contiguous
\* get_order(): the least order whose 2^order pages hold size bytes
get_order(size) ==
    LowestOf({o \in 0..(PAGE_SHIFT + MaxBlocks) : (2^o) * PAGE_SIZE >= size})

\* alloc_pages(order): a naturally aligned run of 2^order free page frames
alloc_pages(S, order) ==
    LET n == 2^order
        bases == {p \in PFNs : /\ p % n = 0
                              /\ \A q \in p..(p + n - 1) : q \in PFNs \ S.pages}
    IN IF S.dma_left = 0 \/ bases = {} THEN NOPAGE ELSE LowestOf(bases)

msc_buffer_contig_alloc(S, size) ==
    LET order == get_order(size)
        page == alloc_pages(S, order)
        run == page..(page + 2^order - 1)
    IN IF size = 0 THEN [S EXCEPT !.ret = "OK"]
       ELSE IF page = NOPAGE THEN [S EXCEPT !.ret = "ENOMEM"]
       ELSE [S EXCEPT !.pages = @ \cup run,
                      !.got = @ \cup run,
                      !.dma_left = @ - 1,
                      !.msc.nr_pages = size \div PAGE_SIZE,
                      !.msc.base = Addr(page),
                      !.msc.base_addr = Addr(page),
                      !.ret = "OK"]

msc_buffer_contig_free(S) ==
    LET freed == {Pfn(S.msc.base + off * PAGE_SIZE) : off \in 0..(S.msc.nr_pages - 1)}
    IN [S EXCEPT !.pages = @ \ freed,
                 !.released = @ \cup freed,
                 !.msc.nr_pages = 0]

\* ------------------------------------------------- multi mode: windows
\* the block loop of msc_buffer_win_alloc(): n more dma_alloc_coherent() calls
RECURSIVE win_alloc_blocks(_, _, _)
win_alloc_blocks(S, block, n) ==
    IF n = 0 THEN [S |-> S, block |-> block, ok |-> TRUE]
    ELSE IF S.dma_left = 0 \/ PFNs \ S.pages = {}
         THEN [S |-> S, block |-> block, ok |-> FALSE]
    ELSE LET p == LowestOf(PFNs \ S.pages)
         IN win_alloc_blocks([S EXCEPT !.pages = @ \cup {p},
                                       !.got = @ \cup {p},
                                       !.dma_left = @ - 1,
                                       !.mem = (p :> ZeroDesc) @@ @],
                             Append(block, p), n - 1)

msc_buffer_win_alloc(S, nr_blocks) ==
    LET list == S.msc.win_list
        prev == S.wins[Last(list)]
        pgoff == IF list # <<>> THEN prev.pgoff + prev.nr_blocks ELSE 0
        a == win_alloc_blocks([S EXCEPT !.kz_left = @ - 1], <<>>, nr_blocks)
        w == LowestOf(WIDs \ DOMAIN S.wins)
        win == [pgoff |-> pgoff, nr_blocks |-> nr_blocks, block |-> a.block]
    IN IF nr_blocks = 0 THEN [S EXCEPT !.ret = "OK"]
       ELSE IF S.kz_left = 0 \/ WIDs \ DOMAIN S.wins = {}
            THEN [S EXCEPT !.ret = "ENOMEM"]
       ELSE IF ~a.ok
            THEN \* err_nomem: give back the blocks obtained so far, and the window
                 [a.S EXCEPT !.pages = @ \ Range(a.block),
                             !.released = @ \cup Range(a.block),
                             !.mem = Restrict(@, DOMAIN @ \ Range(a.block)),
                             !.ret = "ENOMEM"]
       ELSE [a.S EXCEPT !.wins = (w :> win) @@ @,
                        !.msc.base = IF list = <<>> THEN Addr(a.block[1]) ELSE @,
                        !.msc.base_addr = IF list = <<>> THEN Addr(a.block[1]) ELSE @,
                        !.msc.win_list = Append(@, w),
                        !.msc.nr_pages = @ + nr_blocks,
                        !.ret = "OK"]

msc_buffer_win_free(S, w) ==
    LET win == S.wins[w]
        list == SelectSeq(S.msc.win_list, LAMBDA x : x # w)
    IN [S EXCEPT !.msc.nr_pages = (@ - win.nr_blocks) % ULONG_MOD,
                 !.msc.win_list = list,
                 !.msc.base = IF list = <<>> THEN NULL ELSE @,
                 !.msc.base_addr = IF list = <<>> THEN 0 ELSE @,
                 !.pages = @ \ Range(win.block),
                 !.released = @ \cup Range(win.block),
                 !.mem = Restrict(@, DOMAIN @ \ Range(win.block)),
                 !.wins = Restrict(@, DOMAIN @ \ {w})]

\* msc_is_last_win() / msc_next_window(), by window id
msc_is_last_win(m, w) == Last(m.win_list) = w

IndexOf(list, w) == CHOOSE i \in DOMAIN list : list[i] = w

msc_next_window(m, w) ==
    IF msc_is_last_win(m, w) THEN m.win_list[1]
    ELSE m.win_list[IndexOf(m.win_list, w) + 1]

\* msc_buffer_relink() without the last-block case: the last block of a
\* window keeps the zero next_blk of its cleared header
relink_desc_open(S, w, blk) ==
    LET win == S.wins[w]
        next_win == S.wins[msc_next_window(S.msc, w)]
        last_blk == blk = win.nr_blocks - 1
    IN [ZeroDesc EXCEPT
          !.next_win = Pfn(Addr(Blk(next_win, 0))),
          !.next_blk = IF last_blk THEN 0
                       ELSE Pfn(Addr(Blk(win, blk + 1))),
          !.sw_tag = (IF msc_is_last_win(S.msc, w) THEN {"LASTWIN"} ELSE {})
                     \cup (IF last_blk THEN {"LASTBLK"} ELSE {}),
          !.block_sz = PAGE_SIZE \div 64]

\* msc_buffer_relink() that never sets MSC_SW_TAG_LASTWIN
relink_desc_no_lastwin(S, w, blk) ==
    LET win == S.wins[w]
        next_win == S.wins[msc_next_window(S.msc, w)]
        last_blk == blk = win.nr_blocks - 1
    IN [ZeroDesc EXCEPT
          !.next_win = Pfn(Addr(Blk(next_win, 0))),
          !.next_blk = IF last_blk THEN Pfn(Addr(Blk(win, 0)))
                       ELSE Pfn(Addr(Blk(win, blk + 1))),
          !.sw_tag = IF last_blk THEN {"LASTBLK"} ELSE {},
          !.block_sz = PAGE_SIZE \div 64]

\* what msc_buffer_relink() writes into block blk of window w
relink_desc(S, w, blk) ==
    LET win == S.wins[w]
        next_win == S.wins[msc_next_window(S.msc, w)]
        last_blk == blk = win.nr_blocks - 1
    IN [ZeroDesc EXCEPT
          !.next_win = Pfn(Addr(Blk(next_win, 0))),
          !.next_blk = IF last_blk THEN Pfn(Addr(Blk(win, 0)))
                       ELSE Pfn(Addr(Blk(win, blk + 1))),
          !.sw_tag = (IF msc_is_last_win(S.msc, w) THEN {"LASTWIN"} ELSE {})
                     \cup (IF last_blk THEN {"LASTBLK"} ELSE {}),
          !.block_sz = PAGE_SIZE \div 64]

msc_buffer_relink(S) ==
    LET owner(p) == {<<w, blk>> \in Range(S.msc.win_list) \X (0..(MaxBlocks + 1)) :
                        blk < S.wins[w].nr_blocks /\ Blk(S.wins[w], blk) = p}
    IN [S EXCEPT !.mem = [p \in DOMAIN @ |->
                            IF owner(p) = {} THEN @[p]
                            ELSE LET o == CHOOSE o \in owner(p) : TRUE
                                 IN relink_desc(S, o[1], o[2])]]

RECURSIVE msc_buffer_multi_free(_)
msc_buffer_multi_free(S) ==
    IF S.msc.win_list = <<>> THEN S
    ELSE msc_buffer_multi_free(msc_buffer_win_free(S, S.msc.win_list[1]))

RECURSIVE multi_alloc_loop(_, _, _)
multi_alloc_loop(S, nr_pages, i) ==
    IF i > Len(nr_pages) THEN [S EXCEPT !.ret = "OK"]
    ELSE LET r == msc_buffer_win_alloc(S, nr_pages[i])
         IN IF r.ret # "OK"
            THEN [msc_buffer_multi_free(r) EXCEPT !.ret = r.ret]
            ELSE multi_alloc_loop(r, nr_pages, i + 1)

\* msc_buffer_multi_alloc() that lets the counter go to 0 with the linker
\* still to run
msc_buffer_multi_alloc_early(S, nr_pages) ==
    LET r == multi_alloc_loop(S, nr_pages, 1)
    IN IF r.ret # "OK" THEN r ELSE [r EXCEPT !.msc.user_count = 0]

msc_buffer_multi_alloc(S, nr_pages) ==
    LET r == multi_alloc_loop(S, nr_pages, 1)
    IN IF r.ret # "OK" THEN r ELSE msc_buffer_relink(r)

msc_buffer_free(S) ==
    IF S.msc.mode = MSC_MODE_SINGLE THEN msc_buffer_contig_free(S)
    ELSE IF S.msc.mode = MSC_MODE_MULTI THEN msc_buffer_multi_free(S)
    ELSE S

\* msc_buffer_alloc() that does not test the counter first
msc_buffer_alloc_untested(S, nr_pages) ==
    IF S.msc.mode = MSC_MODE_SINGLE
    THEN IF Len(nr_pages) # 1 THEN [S EXCEPT !.ret = "EINVAL"]
         ELSE msc_buffer_contig_alloc(S, nr_pages[1] * PAGE_SIZE)
    ELSE IF S.msc.mode = MSC_MODE_MULTI
         THEN msc_buffer_multi_alloc(S, nr_pages)
    ELSE [S EXCEPT !.ret = "ENOTSUPP"]

\* msc_buffer_alloc() up to its cmpxchg: the counter test and the allocation
msc_buffer_alloc_body(S, nr_pages) ==
    IF S.msc.user_count # -1 THEN [S EXCEPT !.ret = "EBUSY"]
    ELSE IF S.msc.mode = MSC_MODE_SINGLE
         THEN IF Len(nr_pages) # 1 THEN [S EXCEPT !.ret = "EINVAL"]
              ELSE msc_buffer_contig_alloc(S, nr_pages[1] * PAGE_SIZE)
    ELSE IF S.msc.mode = MSC_MODE_MULTI
         THEN msc_buffer_multi_alloc(S, nr_pages)
    ELSE [S EXCEPT !.ret = "ENOTSUPP"]

\* the end of msc_buffer_alloc(): atomic_cmpxchg(&msc->user_count, -1, 0)
msc_buffer_alloc_publish(S) ==
    IF S.msc.user_count = -1 THEN [S EXCEPT !.msc.user_count = 0, !.ret = "OK"]
    ELSE [S EXCEPT !.ret = "EINVAL"]


\* ------------------------------------------------- block header (msu.h)
\* valid_dw counts the valid bytes of the block, header included (a dword of
\* the hardware is one byte of the scaled page)
msc_data_sz(bdesc) ==
    IF bdesc.valid_dw = 0 THEN 0 ELSE bdesc.valid_dw - MSC_BDESC

msc_block_wrapped(bdesc) == "BLOCKWRAP" \in bdesc.hw_tag

msc_block_last_written(bdesc) == "ENDBIT" \in bdesc.hw_tag

msc_block_is_empty(bdesc) ==
    IF bdesc.valid_dw = 0 THEN TRUE
    ELSE IF msc_data_sz(bdesc) = 0 THEN TRUE
    ELSE FALSE

\* the descriptor of block blk of window w
Bdesc(S, w, blk) == S.mem[Blk(S.wins[w], blk)]

\* ------------------------------------------------------ position locator
\* reg is what ioread32(REG_MSU_MSC0NWSA) returns
\* the loop of msc_current_window() that answers the window that matches,
\* not the one before it
RECURSIVE current_window_scan_match(_, _, _, _)
current_window_scan_match(S, i, prev, win_addr) ==
    IF i > Len(S.msc.win_list) THEN prev
    ELSE IF Addr(Blk(S.wins[S.msc.win_list[i]], 0)) = win_addr THEN S.msc.win_list[i]
    ELSE current_window_scan_match(S, i + 1, S.msc.win_list[i], win_addr)

RECURSIVE current_window_scan(_, _, _, _)
current_window_scan(S, i, prev, win_addr) ==
    IF i > Len(S.msc.win_list) THEN prev
    ELSE IF Addr(Blk(S.wins[S.msc.win_list[i]], 0)) = win_addr THEN prev
    ELSE current_window_scan(S, i + 1, S.msc.win_list[i], win_addr)

msc_current_window(S, reg) ==
    LET win_addr == reg * PAGE_SIZE
        prev == current_window_scan(S, 1, NULL, win_addr)
    IN IF S.msc.win_list = <<>> THEN NULL
       ELSE IF prev = NULL THEN Last(S.msc.win_list)
       ELSE prev

\* the loop of msc_oldest_window() that does not skip the empty windows
RECURSIVE oldest_window_scan_any(_, _, _, _)
oldest_window_scan_any(S, i, found, nwsa) ==
    IF i > Len(S.msc.win_list) THEN S.msc.win_list[1]
    ELSE LET w == S.msc.win_list[i]
             f == IF Addr(Blk(S.wins[w], 0)) = nwsa THEN found + 1 ELSE found
         IN IF f > 0 THEN w
            ELSE oldest_window_scan_any(S, i + 1, f, nwsa)

RECURSIVE oldest_window_scan(_, _, _, _)
oldest_window_scan(S, i, found, nwsa) ==
    IF i > Len(S.msc.win_list) THEN S.msc.win_list[1]
    ELSE LET w == S.msc.win_list[i]
             f == IF Addr(Blk(S.wins[w], 0)) = nwsa THEN found + 1 ELSE found
         IN IF msc_block_is_empty(Bdesc(S, w, 0))
            THEN oldest_window_scan(S, i + 1, f, nwsa)
            ELSE IF f > 0 THEN w
            ELSE oldest_window_scan(S, i + 1, f, nwsa)

msc_oldest_window(S, reg) ==
    LET nwsa == IF S.msc.enabled THEN reg * PAGE_SIZE ELSE S.msc.nwsa
    IN IF S.msc.win_list = <<>> THEN NULL
       ELSE oldest_window_scan(S, 1, 0, nwsa)

\* the loop of msc_win_oldest_block() that does not look at block 0
RECURSIVE oldest_block_scan_skip(_, _, _)
oldest_block_scan_skip(S, w, blk) ==
    IF blk >= S.wins[w].nr_blocks THEN 0
    ELSE IF blk > 0 /\ msc_block_last_written(Bdesc(S, w, blk)) THEN blk
    ELSE oldest_block_scan_skip(S, w, blk + 1)

RECURSIVE oldest_block_scan(_, _, _)
oldest_block_scan(S, w, blk) ==
    IF blk >= S.wins[w].nr_blocks THEN 0
    ELSE IF msc_block_last_written(Bdesc(S, w, blk)) THEN blk
    ELSE oldest_block_scan(S, w, blk + 1)

\* msc_win_oldest_block() that answers the last block of the window
msc_win_oldest_block_last(S, w) == S.wins[w].nr_blocks - 1

msc_win_oldest_block(S, w) ==
    IF ~msc_block_wrapped(Bdesc(S, w, 0)) THEN 0
    ELSE oldest_block_scan(S, w, 0)

\* --------------------------------------------------- consumption iterator
\* struct msc_iter after msc_iter_init(); g_wins and g_blks are history: the
\* windows entered and the blocks positioned on, in order
msc_iter_init ==
    [start_win |-> NULL, win |-> NULL, offset |-> 0, start_block |-> -1,
     block |-> -1, block_off |-> 0, wrap_count |-> 0, eof |-> 0,
     g_wins |-> <<>>, g_blks |-> <<>>]

msc_iter_bdesc(S, iter) == Bdesc(S, iter.win, iter.block)

\* msc_iter_block_start() that sets wrap_count to 2 without looking at the
\* wrap flag of the block
msc_iter_block_start_revisit(S, iter) ==
    LET blk == msc_win_oldest_block(S, iter.win)
        i1 == [iter EXCEPT !.start_block = blk, !.block = blk, !.wrap_count = 0,
                           !.g_blks = Append(@, <<iter.win, blk>>)]
    IN IF iter.start_block # -1 THEN iter
       ELSE [i1 EXCEPT !.wrap_count = 2]

\* msc_iter_block_start() that asks for one more lap of a wrapped window
msc_iter_block_start_thrice(S, iter) ==
    LET blk == msc_win_oldest_block(S, iter.win)
        i1 == [iter EXCEPT !.start_block = blk, !.block = blk, !.wrap_count = 0,
                           !.g_blks = Append(@, <<iter.win, blk>>)]
    IN IF iter.start_block # -1 THEN iter
       ELSE IF msc_block_wrapped(msc_iter_bdesc(S, i1))
            THEN [i1 EXCEPT !.wrap_count = 3]
       ELSE i1

msc_iter_block_start(S, iter) ==
    LET blk == msc_win_oldest_block(S, iter.win)
        i1 == [iter EXCEPT !.start_block = blk, !.block = blk, !.wrap_count = 0,
                           !.g_blks = Append(@, <<iter.win, blk>>)]
    IN IF iter.start_block # -1 THEN iter
       ELSE IF msc_block_wrapped(msc_iter_bdesc(S, i1))
            THEN [i1 EXCEPT !.wrap_count = 2]
       ELSE i1

\* returns the iterator and the int result
msc_iter_win_start(S, iter, reg) ==
    LET w == msc_oldest_window(S, reg)
        i1 == [iter EXCEPT !.start_win = w, !.win = w, !.start_block = -1,
                           !.g_wins = Append(@, w)]
    IN IF iter.start_win # NULL THEN [iter |-> iter, ret |-> 0]
       ELSE IF w = NULL THEN [iter |-> [iter EXCEPT !.start_win = NULL], ret |-> 1]
       ELSE [iter |-> msc_iter_block_start(S, i1), ret |-> 0]

msc_iter_win_advance(S, iter) ==
    LET w == msc_next_window(S.msc, iter.win)
        i1 == [iter EXCEPT !.win = w, !.start_block = -1]
    IN IF w = iter.start_win
       THEN [iter |-> [i1 EXCEPT !.eof = @ + 1], ret |-> 1]
       ELSE [iter |-> msc_iter_block_start(S, [i1 EXCEPT !.g_wins = Append(@, w)]),
             ret |-> 0]

\* msc_iter_block_advance() that leaves the window as soon as the tail of
\* the starting block is read
msc_iter_block_advance_early(S, iter) ==
    LET i0 == [iter EXCEPT !.block_off = 0]
        wrapping == i0.wrap_count # 0 /\ i0.block = i0.start_block
        i1 == IF wrapping THEN [i0 EXCEPT !.wrap_count = @ - 1] ELSE i0
        nb == IF i1.block + 1 = S.wins[i1.win].nr_blocks THEN 0 ELSE i1.block + 1
        i2 == [i1 EXCEPT !.block = nb]
    IN IF wrapping
       THEN msc_iter_win_advance(S, i1)
       ELSE IF i1.wrap_count = 0 /\ msc_block_last_written(msc_iter_bdesc(S, i1))
       THEN msc_iter_win_advance(S, i1)
       ELSE IF i2.wrap_count = 0 /\ i2.block = i2.start_block
       THEN msc_iter_win_advance(S, i2)
       ELSE [iter |-> [i2 EXCEPT !.g_blks = Append(@, <<i2.win, nb>>)], ret |-> 0]

\* msc_iter_block_advance() that stays on the starting block after its tail
msc_iter_block_advance_stay(S, iter) ==
    LET i0 == [iter EXCEPT !.block_off = 0]
        wrapping == i0.wrap_count # 0 /\ i0.block = i0.start_block
        i1 == IF wrapping THEN [i0 EXCEPT !.wrap_count = @ - 1] ELSE i0
        nb == IF wrapping THEN i1.block
              ELSE IF i1.block + 1 = S.wins[i1.win].nr_blocks THEN 0 ELSE i1.block + 1
        i2 == [i1 EXCEPT !.block = nb]
    IN IF wrapping /\ i1.wrap_count = 0
       THEN msc_iter_win_advance(S, i1)
       ELSE IF i1.wrap_count = 0 /\ msc_block_last_written(msc_iter_bdesc(S, i1))
       THEN msc_iter_win_advance(S, i1)
       ELSE IF i2.wrap_count = 0 /\ i2.block = i2.start_block
       THEN msc_iter_win_advance(S, i2)
       ELSE [iter |-> [i2 EXCEPT !.g_blks = Append(@, <<i2.win, nb>>)], ret |-> 0]

msc_iter_block_advance(S, iter) ==
    LET i0 == [iter EXCEPT !.block_off = 0]
        wrapping == i0.wrap_count # 0 /\ i0.block = i0.start_block
        i1 == IF wrapping THEN [i0 EXCEPT !.wrap_count = @ - 1] ELSE i0
        nb == IF i1.block + 1 = S.wins[i1.win].nr_blocks THEN 0 ELSE i1.block + 1
        i2 == [i1 EXCEPT !.block = nb]
    IN IF wrapping /\ i1.wrap_count = 0
       THEN \* copied newest data from the wrapped block
            msc_iter_win_advance(S, i1)
       ELSE IF i1.wrap_count = 0 /\ msc_block_last_written(msc_iter_bdesc(S, i1))
       THEN \* copied newest data for the window
            msc_iter_win_advance(S, i1)
       ELSE IF i2.wrap_count = 0 /\ i2.block = i2.start_block
       THEN msc_iter_win_advance(S, i2)
       ELSE [iter |-> [i2 EXCEPT !.g_blks = Append(@, <<i2.win, nb>>)], ret |-> 0]

\* The caller's buffer: cap bytes of it are writable, offset are written,
\* data is what was written.  copy_to_user() stops at the first bad byte.
UserBuf(cap) == [cap |-> cap, offset |-> 0, data |-> <<>>]

Bytes(src, n) == [i \in 1..n |-> src + i - 1]

\* msc_win_to_user() that reports every byte as copied
msc_win_to_user_all(u, src, len) ==
    LET room == IF u.cap > u.offset THEN u.cap - u.offset ELSE 0
        done == Min(len, room)
    IN [u |-> [u EXCEPT !.offset = @ + done, !.data = @ \o Bytes(src, done)],
        ret |-> 0]

\* msc_win_to_user(): returns the bytes not copied
msc_win_to_user(u, src, len) ==
    LET room == IF u.cap > u.offset THEN u.cap - u.offset ELSE 0
        done == Min(len, room)
    IN [u |-> [u EXCEPT !.offset = @ + done, !.data = @ \o Bytes(src, done)],
        ret |-> len - done]

\* the do-while loop of msc_buffer_iterate()
RECURSIVE iterate_loop(_, _, _, _)
iterate_loop(S, iter, len, u) ==
    LET bdesc == msc_iter_bdesc(S, iter)
        data_bytes == msc_data_sz(bdesc)
        src0 == Addr(Blk(S.wins[iter.win], iter.block)) + MSC_BDESC
        oldest == iter.block = iter.start_block /\ iter.wrap_count = 2
        tocopy0 == IF oldest THEN DATA_IN_PAGE - data_bytes ELSE data_bytes
        src1 == IF oldest THEN src0 + data_bytes ELSE src0
        tocopy1 == tocopy0 - iter.block_off
        src == src1 + iter.block_off
        short == len < tocopy1
        tocopy == IF short THEN len ELSE tocopy1
        c == msc_win_to_user(u, src, tocopy)
        advance == ~short /\ c.ret = 0
        copied == tocopy - c.ret
        len1 == len - copied
        i1 == [iter EXCEPT !.block_off = @ + copied, !.offset = @ + copied]
        \* next_block: taken with nothing copied when the block has no bytes
        skip == tocopy0 = 0
        pre == IF skip THEN [iter |-> iter, len |-> len, u |-> u]
               ELSE [iter |-> i1, len |-> len1, u |-> c.u]
        next_block(p, a) ==
            IF a.ret # 0 \/ p.len = 0 THEN [p EXCEPT !.iter = a.iter]
            ELSE iterate_loop(S, a.iter, p.len, p.u)
    IN IF ~skip /\ ~advance THEN pre
       ELSE The({The({next_block(p, a) : a \in {msc_iter_block_advance(S, p.iter)}}) :
                 p \in {pre}})

\* returns the iterator, the caller's buffer and the amount scanned
msc_buffer_iterate(S, iter, size, u, reg) ==
    LET scanned(r) == [iter |-> r.iter, u |-> r.u, ret |-> size - r.len]
        started(st) ==
            IF st.ret # 0 THEN [iter |-> st.iter, u |-> u, ret |-> 0]
            ELSE The({scanned(r) : r \in {iterate_loop(S, st.iter, size, u)}})
    IN IF iter.eof # 0 THEN [iter |-> iter, u |-> u, ret |-> 0]
       ELSE The({started(st) : st \in {msc_iter_win_start(S, iter, reg)}})


\* ------------------------------------------------------- sequential read

\* copy_to_user(): returns the bytes not copied
copy_to_user(u, src, n) == msc_win_to_user(u, src, n)

\* msc_single_to_user() that starts every copy at the start of the region,
\* whatever the file offset
msc_single_to_user_rewind(in_buf, in_pages, in_sz, wrapped, u, off, len) ==
    LET tocopy == Min(len, in_sz)
        c == copy_to_user(u, in_buf, tocopy)
    IN IF len # 0 /\ c.ret # 0 THEN [u |-> c.u, err |-> "EFAULT", n |-> 0]
       ELSE [u |-> c.u, err |-> "OK", n |-> tocopy]

\* returns the caller's buffer, and the byte count or -EFAULT
msc_single_to_user(in_buf, in_pages, in_sz, wrapped, u, off, len) ==
    LET size == in_pages * PAGE_SIZE
        start0 == IF wrapped THEN off + in_sz ELSE off
        first == wrapped /\ start0 < size
        tocopy1 == IF first THEN Min(len, size - start0) ELSE 0
        c1 == copy_to_user(u, in_buf + start0, tocopy1)
        rem1 == len - tocopy1
        start1 == IF wrapped THEN BitAnd(start0 + tocopy1, (size - 1) % ULONG_MOD)
                  ELSE start0
        tocopy2 == IF rem1 # 0 THEN Min(rem1, (in_sz - start1) % ULONG_MOD) ELSE 0
        c2 == copy_to_user(c1.u, in_buf + start1, tocopy2)
    IN IF first /\ c1.ret # 0 THEN [u |-> c1.u, err |-> "EFAULT", n |-> 0]
       ELSE IF rem1 # 0 /\ c2.ret # 0 THEN [u |-> c2.u, err |-> "EFAULT", n |-> 0]
       ELSE [u |-> c2.u, err |-> "OK", n |-> len - (rem1 - tocopy2)]

\* a reader session: the iterator (file->private_data), the file position,
\* and as history the bytes the reads returned, in order
NoFile == [open |-> FALSE]
NewFile(rec) == [open |-> TRUE, iter |-> msc_iter_init, pos |-> 0, out |-> <<>>,
                 rec |-> rec, uaf |-> FALSE]

\* the iterator points into a window that is not, or no longer, in the list
Dangling(S, iter) ==
    /\ iter.eof = 0
    /\ iter.start_win # NULL
    /\ \/ iter.win \notin DOMAIN S.wins
       \/ iter.win \notin Range(S.msc.win_list)
       \/ iter.block >= S.wins[iter.win].nr_blocks

\* intel_th_msc_read() between taking and dropping its user_count reference
intel_th_msc_read(S, file, len, cap, reg) ==
    LET m == S.msc
        size == IF m.mode = MSC_MODE_SINGLE /\ ~m.single_wrap THEN m.single_sz
                ELSE m.nr_pages * PAGE_SIZE
        off == file.pos
        len1 == IF off + len >= size THEN size - off ELSE len
        single(sr) ==
            [file |-> IF sr.err = "OK"
                      THEN [file EXCEPT !.pos = @ + sr.n,
                                        !.out = IF file.rec THEN @ \o sr.u.data ELSE @]
                      ELSE file,
             err |-> sr.err, n |-> sr.n]
        multi(ir) ==
            [file |-> [file EXCEPT !.iter = IF file.rec THEN ir.iter
                                            ELSE [ir.iter EXCEPT !.g_wins = <<>>,
                                                                 !.g_blks = <<>>],
                                   !.pos = ir.iter.offset,
                                   !.out = IF file.rec THEN @ \o ir.u.data ELSE @],
             err |-> "OK", n |-> ir.ret]
    IN IF size = 0 \/ off >= size THEN [file |-> file, err |-> "OK", n |-> 0]
       ELSE IF m.mode = MSC_MODE_SINGLE
       THEN The({single(sr) : sr \in {msc_single_to_user(
                     m.base, m.nr_pages, m.single_sz, m.single_wrap,
                     UserBuf(cap), off, len1)}})
       ELSE IF m.mode = MSC_MODE_MULTI
       THEN IF Dangling(S, file.iter)
            THEN [file |-> [file EXCEPT !.uaf = TRUE], err |-> "OK", n |-> 0]
            ELSE The({multi(ir) : ir \in {msc_buffer_iterate(
                          S, file.iter, len1, UserBuf(cap), reg)}})
       ELSE [file |-> file, err |-> "ENOTSUPP", n |-> 0]


\* ------------------------------------------------- capture configuration
\* msc_buffer_clear_hw_header() that clears the descriptor from its start
msc_buffer_clear_header_all(S) ==
    LET blocks == UNION {Range(S.wins[w].block) : w \in Range(S.msc.win_list)}
    IN [S EXCEPT !.mem = [p \in DOMAIN @ |->
                            IF p \in blocks THEN ZeroDesc ELSE @[p]]]

msc_buffer_clear_hw_header(S) ==
    LET blocks == UNION {Range(S.wins[w].block) : w \in Range(S.msc.win_list)}
    IN [S EXCEPT !.mem = [p \in DOMAIN @ |->
                            IF p \in blocks
                            THEN [@[p] EXCEPT !.hw_tag = {}, !.valid_dw = 0]
                            ELSE @[p]]]

msc_configure(S) ==
    LET S1 == IF S.msc.mode = MSC_MODE_MULTI THEN msc_buffer_clear_hw_header(S)
              ELSE S
    IN IF S.msc.mode > MSC_MODE_MULTI THEN [S EXCEPT !.ret = "ENOTSUPP"]
       ELSE [S1 EXCEPT !.msc.enabled = TRUE, !.ret = "OK"]

\* sts_wrap, mwp and nwsa_reg are what the MSC0STS (WRAPSTAT bit), MSC0MWP and
\* MSC0NWSA registers read
msc_disable(S, sts_wrap, mwp, nwsa_reg) ==
    LET single == S.msc.mode = MSC_MODE_SINGLE
        mask == (S.msc.nr_pages * PAGE_SIZE - 1) % ULONG_MOD
    IN [S EXCEPT !.msc.single_wrap = IF single THEN sts_wrap ELSE @,
                 !.msc.single_sz = IF single THEN BitAnd(mwp, mask) ELSE @,
                 !.msc.nwsa = nwsa_reg * PAGE_SIZE,
                 !.msc.enabled = FALSE]

\* ------------------------------------------------------- reader sessions
\* msc_iter_install() that does not look at msc->enabled
msc_iter_install_unchecked(m, s) ==
    [msc |-> [m EXCEPT !.iter_list = Append(@, s)],
     file |-> [open |-> TRUE, iter |-> msc_iter_init, pos |-> 0, out |-> <<>>,
               rec |-> FALSE, uaf |-> FALSE],
     err |-> "OK"]

\* msc_iter_install() under buf_mutex: the new iterator, or -EBUSY
msc_iter_install(m, s) ==
    IF m.enabled THEN [msc |-> m, file |-> NoFile, err |-> "EBUSY"]
    ELSE [msc |-> [m EXCEPT !.iter_list = Append(@, s)],
          file |-> NewFile(FALSE), err |-> "OK"]

msc_iter_remove(m, s) ==
    [m EXCEPT !.iter_list = SelectSeq(@, LAMBDA x : x # s)]

\* ------------------------------------------------------ nr_pages (resize)
\* A written size list is a sequence of tokens: a number, or BadToken for
\* text kstrtoul() rejects.  The scan of nr_pages_store() from token i on:
\* win is the array built so far.
BadToken == -1

RECURSIVE nr_pages_scan(_, _, _, _)
nr_pages_scan(m, toks, i, win) ==
    LET val == toks[i]
        m1 == [m EXCEPT !.max_blocks = IF val > @ THEN val ELSE @]
    IN IF i > Len(toks) THEN [msc |-> m, win |-> win, err |-> "OK", go |-> TRUE]
       ELSE IF val = BadToken THEN [msc |-> m, win |-> win, err |-> "EINVAL", go |-> FALSE]
       ELSE IF val = 0 THEN [msc |-> m, win |-> win, err |-> "OK", go |-> FALSE]
       ELSE IF Len(win) # 0 /\ m.mode = MSC_MODE_SINGLE
            THEN [msc |-> m, win |-> win, err |-> "EINVAL", go |-> FALSE]
       ELSE nr_pages_scan(m1, toks, i + 1, Append(win, val))


\* ------------------------------------------------------------- the steps
S0 == KState(msc, wins, mem, pages, 0, 0)

Commit(S) ==
    /\ msc' = S.msc
    /\ wins' = S.wins
    /\ mem' = S.mem
    /\ pages' = S.pages

NoLoc == [s |-> 0]
NoRet == [op |-> "none", err |-> "OK", n |-> 0]
NoGhost == [last |-> "none", before |-> {}]

\* struct fib_rules_ops after fib_rules_register(): no rule, no goto
rules_init == [rules_list |-> << >>, rule |-> << >>,
               nr_goto_rules |-> 0, unresolved_rules |-> 0]

\* ret is what the handler that finished in the last step returned, if it
\* returns a value
Goto(t, label, l) ==
    /\ pc' = [pc EXCEPT ![t] = label]
    /\ loc' = [loc EXCEPT ![t] = l]
    /\ ret' = NoRet
    /\ ops' = ops

Finish(t, op, err, n) ==
    /\ pc' = [pc EXCEPT ![t] = "idle"]
    /\ loc' = [loc EXCEPT ![t] = NoLoc]
    /\ ret' = [op |-> op, err |-> err, n |-> n]
    /\ ops' = ops

\* the session is not inside one of its own file operations
Quiet(s) == \A t \in Threads : pc[t] = "idle" \/ loc[t].s # s

\* values the next-window-start-address register can hold: the first block
\* of a window, or an address that is no window's
NwsaRegs == {MaxPfn + 1} \cup {Blk(wins[w], 0) : w \in DOMAIN wins}

\* read lengths: short ones, and one longer than any buffer
BigLen == (MaxPfn + 2) * PAGE_SIZE
Lens == 1..MaxLen \cup {BigLen}

\* intel_th_msc_open() by a caller that has CAP_SYS_RAWIO; rec says whether
\* the history of the session is kept
Open(t, s, rec) ==
    /\ pc[t] = "idle" /\ buf_mutex = 0
    /\ ~files[s].open
    /\ LET r == msc_iter_install(msc, s)
       IN /\ msc' = r.msc
          /\ files' = [files EXCEPT ![s] = IF r.file.open
                                           THEN [r.file EXCEPT !.rec = rec]
                                           ELSE r.file]
          /\ Finish(t, "open", r.err, 0)
    /\ ghost' = NoGhost
    /\ UNCHANGED <<wins, mem, pages, vmas, output_active, buf_mutex>>

\* intel_th_msc_release(): the last reference to the file is gone
Release(t, s) ==
    /\ pc[t] = "idle" /\ buf_mutex = 0
    /\ files[s].open /\ vmas[s] = 0 /\ Quiet(s)
    /\ msc' = msc_iter_remove(msc, s)
    /\ files' = [files EXCEPT ![s] = NoFile]
    /\ Finish(t, "none", "OK", 0)
    /\ ghost' = NoGhost
    /\ UNCHANGED <<wins, mem, pages, vmas, output_active, buf_mutex>>

\* atomic_inc_unless_negative(&msc->user_count)
atomic_inc_unless_negative(m) ==
    IF m.user_count >= 0 THEN [msc |-> [m EXCEPT !.user_count = @ + 1], ok |-> TRUE]
    ELSE [msc |-> m, ok |-> FALSE]

\* intel_th_msc_read(): atomic_inc_unless_negative()
ReadGet(t, s) ==
    /\ pc[t] = "idle"
    /\ files[s].open /\ Quiet(s)
    /\ msc.user_count < MaxUsers
    /\ LET a == atomic_inc_unless_negative(msc)
       IN /\ msc' = a.msc
          /\ IF a.ok THEN Goto(t, "rd_body", [s |-> s])
             ELSE Finish(t, "read", "OK", 0)
    /\ ghost' = NoGhost
    /\ UNCHANGED <<wins, mem, pages, files, vmas, output_active, buf_mutex>>

\* intel_th_msc_read(): the copy, then put_count; lens are the lengths asked
ReadBody(t, lens) ==
    /\ pc[t] = "rd_body"
    /\ \E len \in lens, short \in BOOLEAN,
          reg \in (IF msc.enabled THEN NwsaRegs ELSE {MaxPfn + 1}) :
         \E r \in {intel_th_msc_read(S0, files[loc[t].s], len,
                                      IF short THEN len - 1 ELSE len, reg)} :
            /\ files' = [files EXCEPT ![loc[t].s] = r.file]
            /\ Finish(t, "read", r.err, r.n)
    /\ msc' = [msc EXCEPT !.user_count = @ - 1]
    /\ ghost' = NoGhost
    /\ UNCHANGED <<wins, mem, pages, vmas, output_active, buf_mutex>>

\* intel_th_msc_activate(): atomic_inc_unless_negative().  The core calls
\* activate only on an output that is not active.
ActivateGet(t) ==
    /\ pc[t] = "idle"
    /\ output_active = "off"
    /\ msc.user_count < MaxUsers
    /\ LET a == atomic_inc_unless_negative(msc)
       IN /\ msc' = a.msc
          /\ IF a.ok
             THEN Goto(t, "act_lock", NoLoc) /\ output_active' = "starting"
             ELSE Finish(t, "activate", "ENODEV", 0) /\ UNCHANGED output_active
    /\ ghost' = NoGhost
    /\ UNCHANGED <<wins, mem, pages, files, vmas, buf_mutex>>

\* intel_th_msc_activate() that keeps its count when it fails
intel_th_msc_activate_keep(S) ==
    IF S.msc.iter_list = <<>> THEN msc_configure(S)
    ELSE [S EXCEPT !.ret = "EBUSY"]

\* intel_th_msc_activate() under buf_mutex, and the atomic_dec() on failure
intel_th_msc_activate(S) ==
    LET r == IF S.msc.iter_list = <<>> THEN msc_configure(S)
             ELSE [S EXCEPT !.ret = "EBUSY"]
    IN IF r.ret # "OK" THEN [r EXCEPT !.msc.user_count = @ - 1] ELSE r

ActivateLocked(t) ==
    /\ pc[t] = "act_lock" /\ buf_mutex = 0
    /\ LET r == intel_th_msc_activate(S0)
       IN /\ Commit(r)
          /\ output_active' = IF r.ret = "OK" THEN "on" ELSE "off"
          /\ Finish(t, "activate", r.ret, 0)
    /\ ghost' = NoGhost
    /\ UNCHANGED <<files, vmas, buf_mutex>>

\* what the registers can hold when capture stops: the wrap status, the
\* offset of the write pointer into the buffer, the next window
HwRegs ==
    [wrap : BOOLEAN, off : 0..(Max(msc.nr_pages * PAGE_SIZE, 1) - 1), nwsa : NwsaRegs]

\* two of them: no wrap, the write pointer in the last page, the next
\* window the first one; and a wrap, the write pointer on the last byte of
\* the buffer, the next window the last one
HwFew ==
    {[wrap |-> FALSE, off |-> Max(msc.nr_pages - 1, 0) * PAGE_SIZE + 1,
      nwsa |-> IF msc.win_list = <<>> THEN MaxPfn + 1
               ELSE Blk(wins[msc.win_list[1]], 0)],
     [wrap |-> TRUE, off |-> Max(msc.nr_pages * PAGE_SIZE, 1) - 1,
      nwsa |-> IF msc.win_list = <<>> THEN MaxPfn + 1
               ELSE Blk(wins[Last(msc.win_list)], 0)]}

\* intel_th_msc_deactivate(), called by the core on an active output
intel_th_msc_deactivate(S, sts_wrap, mwp, nwsa_reg) ==
    IF S.msc.enabled
    THEN [msc_disable(S, sts_wrap, mwp, nwsa_reg) EXCEPT !.msc.user_count = @ - 1]
    ELSE S

Deactivate(t, regs) ==
    /\ pc[t] = "idle" /\ buf_mutex = 0
    /\ output_active = "on"
    /\ \E hw \in regs :
         Commit(intel_th_msc_deactivate(S0, hw.wrap, msc.base_addr + hw.off, hw.nwsa))
    /\ output_active' = "off"
    /\ Finish(t, "none", "OK", 0)
    /\ ghost' = NoGhost
    /\ UNCHANGED <<files, vmas, buf_mutex>>

\* the mappings a process can ask for: vm_end - vm_start in bytes (nothing,
\* not whole pages, the buffer when it fits in memory, one page more) and
\* vm_pgoff
MmapArgs ==
    [size : {0, PAGE_SIZE + 1} \cup {(Min(msc.nr_pages, MaxPfn + 1) + k) * PAGE_SIZE : k \in 0..1},
     pgoff : {0, 1}]

\* intel_th_msc_mmap() that accepts any page offset
mmap_args_any_pgoff(size, pgoff) == size # 0 /\ size % PAGE_SIZE = 0

\* intel_th_msc_mmap(): what it looks at before it takes a reference
mmap_args_ok(size, pgoff) == size # 0 /\ size % PAGE_SIZE = 0 /\ pgoff = 0

\* intel_th_msc_mmap(): the argument checks and atomic_inc_unless_negative()
MmapGet(t, s) ==
    /\ pc[t] = "idle"
    /\ files[s].open /\ Quiet(s)
    /\ vmas[s] < MaxVmas
    /\ msc.user_count < MaxUsers
    /\ \E vma \in MmapArgs :
         LET a == atomic_inc_unless_negative(msc)
         IN IF ~mmap_args_ok(vma.size, vma.pgoff)
            THEN Finish(t, "mmap", "EINVAL", 0) /\ UNCHANGED msc
            ELSE /\ msc' = a.msc
                 /\ IF a.ok
                    THEN Goto(t, "mm_check",
                              [s |-> s, size |-> vma.size, pgoff |-> vma.pgoff])
                    ELSE Finish(t, "mmap", "EINVAL", 0)
    /\ ghost' = NoGhost
    /\ UNCHANGED <<wins, mem, pages, files, vmas, output_active, buf_mutex>>

\* intel_th_msc_mmap() holding the reference: mode and size checks, then
\* atomic_set(&msc->mmap_count, 1), or the atomic_dec() at out:
\* size is the length of the mapping in pages
intel_th_msc_mmap(m, size) ==
    IF m.mode # MSC_MODE_SINGLE /\ m.mode # MSC_MODE_MULTI
    THEN [msc |-> [m EXCEPT !.user_count = @ - 1], err |-> "EINVAL"]
    ELSE IF size # m.nr_pages
    THEN [msc |-> [m EXCEPT !.user_count = @ - 1], err |-> "EINVAL"]
    ELSE [msc |-> [m EXCEPT !.mmap_count = 1], err |-> "OK"]

MmapCheck(t) ==
    /\ pc[t] = "mm_check"
    /\ LET r == intel_th_msc_mmap(msc, loc[t].size \div PAGE_SIZE)
       IN /\ msc' = r.msc
          /\ vmas' = [vmas EXCEPT ![loc[t].s] = IF r.err = "OK" THEN @ + 1 ELSE @]
          /\ Finish(t, "mmap", r.err, 0)
    /\ ghost' = NoGhost
    /\ UNCHANGED <<wins, mem, pages, files, output_active, buf_mutex>>

\* msc_mmap_open(): the kernel duplicates (splits) a live mapping
msc_mmap_open(m) == [m EXCEPT !.mmap_count = @ + 1]

VmOpen(t, s) ==
    /\ pc[t] = "idle"
    /\ vmas[s] > 0 /\ vmas[s] < MaxVmas
    /\ msc' = msc_mmap_open(msc)
    /\ vmas' = [vmas EXCEPT ![s] = @ + 1]
    /\ Finish(t, "none", "OK", 0)
    /\ ghost' = NoGhost
    /\ UNCHANGED <<wins, mem, pages, files, output_active, buf_mutex>>

\* msc_mmap_close(): atomic_dec_and_mutex_lock() decrements without the
\* mutex unless the count is 1
VmClose(t, s) ==
    /\ pc[t] = "idle"
    /\ vmas[s] > Cardinality({u \in Threads : pc[u] = "vc_lock"})
    /\ msc.mmap_count > -MaxUnder
    /\ IF msc.mmap_count # 1
       THEN /\ msc' = [msc EXCEPT !.mmap_count = @ - 1]
            /\ vmas' = [vmas EXCEPT ![s] = @ - 1]
            /\ Finish(t, "none", "OK", 0)
       ELSE /\ Goto(t, "vc_lock", [s |-> s])
            /\ UNCHANGED <<msc, vmas>>
    /\ ghost' = NoGhost
    /\ UNCHANGED <<wins, mem, pages, files, output_active, buf_mutex>>

\* msc_mmap_close() with the mutex: the decrement, and for the last mapping
\* the drop of the user_count reference
msc_mmap_close(m) ==
    LET m1 == [m EXCEPT !.mmap_count = @ - 1]
    IN IF m1.mmap_count = 0 THEN [m1 EXCEPT !.user_count = @ - 1] ELSE m1

VmCloseLocked(t) ==
    /\ pc[t] = "vc_lock" /\ buf_mutex = 0
    /\ msc.user_count > -MaxUnder
    /\ msc' = msc_mmap_close(msc)
    /\ vmas' = [vmas EXCEPT ![loc[t].s] = @ - 1]
    /\ Finish(t, "none", "OK", 0)
    /\ ghost' = NoGhost
    /\ UNCHANGED <<wins, mem, pages, files, output_active, buf_mutex>>

\* msc_buffer_unlocked_free_unless_used(): atomic_cmpxchg(&user_count, 0, -1);
\* count is the value it found
free_cmpxchg(m) ==
    [msc |-> IF m.user_count = 0 THEN [m EXCEPT !.user_count = -1] ELSE m,
     count |-> m.user_count]

\* what msc_buffer_unlocked_free_unless_used() returns for a count
free_unless_used_ret(count) == IF count > 0 THEN "EBUSY" ELSE "OK"

\* what a caller can see of the buffer: the mode, the windows or the
\* contiguous region, the page count and the usage counter
BufState(m) ==
    [mode |-> m.mode, win_list |-> m.win_list, base |-> m.base,
     base_addr |-> m.base_addr, nr_pages |-> m.nr_pages,
     user_count |-> m.user_count]

\* nr_pages_store() by a caller that has CAP_SYS_RAWIO:
\* msc_buffer_free_unless_used() takes the mutex and exchanges the counter
NrPagesStore(t) ==
    /\ pc[t] = "idle" /\ buf_mutex = 0
    /\ LET x == free_cmpxchg(msc)
       IN /\ msc' = x.msc
          /\ IF free_unless_used_ret(x.count) # "OK"
             THEN /\ Finish(t, "free", free_unless_used_ret(x.count), 0)
                  /\ UNCHANGED buf_mutex
             ELSE IF x.count = 0
             THEN Goto(t, "np_free", [s |-> 0, entry |-> BufState(msc)]) /\ buf_mutex' = t
             ELSE Goto(t, "np_scan", [s |-> 0, entry |-> BufState(msc)]) /\ UNCHANGED buf_mutex
    /\ UNCHANGED <<wins, mem, pages, files, vmas, output_active, ghost>>

\* history: a free that follows an allocate with nothing in between
Freed == IF ghost.last = "alloc" THEN [ghost EXCEPT !.last = "alloc_free"] ELSE NoGhost

\* ... msc_buffer_free() and mutex_unlock()
NrPagesFree(t) ==
    /\ pc[t] = "np_free" /\ buf_mutex = t
    /\ LET r == msc_buffer_free(S0)
       IN Commit(r) /\ ghost' = Freed
    /\ buf_mutex' = 0
    /\ Goto(t, "np_scan", loc[t])
    /\ UNCHANGED <<files, vmas, output_active>>

SizeTokens == {BadToken} \cup 0..MaxBlocks
SizeLists == UNION {[1..n -> SizeTokens] : n \in 1..MaxWins}

\* two lists: one window of the most blocks, and two windows of one block
FewLists == {<<MaxBlocks>>, <<1, 1>>}

\* nr_pages_store(): max_blocks = 0, the scan of the written list, and
\* msc_buffer_alloc() under the mutex up to its cmpxchg
NrPagesAlloc(t, lists) ==
    /\ pc[t] = "np_scan" /\ buf_mutex = 0
    /\ \E toks \in lists, kz_left \in {MaxWins - 1, MaxWins} :
         LET sc == nr_pages_scan([msc EXCEPT !.max_blocks = 0], toks, 1, <<>>)
             r == msc_buffer_alloc_body(
                      KState(sc.msc, wins, mem, pages, MaxPfn + 1, kz_left), sc.win)
         IN IF ~sc.go
            THEN /\ msc' = sc.msc
                 /\ Finish(t, "nr_pages", sc.err, 0)
                 /\ ghost' = NoGhost
                 /\ UNCHANGED <<wins, mem, pages, buf_mutex>>
            ELSE /\ Commit(r)
                 /\ IF r.ret = "OK"
                    THEN /\ Goto(t, "np_xchg", NoLoc)
                         /\ buf_mutex' = t
                         /\ ghost' = [last |-> "allocating", before |-> pages]
                    ELSE /\ Finish(t, "alloc", r.ret, 0)
                         /\ UNCHANGED buf_mutex
                         /\ ghost' = NoGhost
    /\ UNCHANGED <<files, vmas, output_active>>

\* ... the cmpxchg that publishes the buffer, and mutex_unlock()
NrPagesPublish(t) ==
    /\ pc[t] = "np_xchg" /\ buf_mutex = t
    /\ LET r == msc_buffer_alloc_publish(S0)
       IN Commit(r) /\ Finish(t, "alloc", r.ret, 0)
    /\ buf_mutex' = 0
    /\ ghost' = [ghost EXCEPT !.last = "alloc"]
    /\ UNCHANGED <<files, vmas, output_active>>

\* three of the mode names
FewModes == {MSC_MODE_SINGLE, MSC_MODE_MULTI, MSC_MODE_EXI}

\* mode_store() by a caller that has CAP_SYS_RAWIO: the name lookup, the
\* mutex and the counter exchange; with no
\* buffer to free the mode is set at once.  i is the index the name matched,
\* or -1 for a name that matches no mode.
ModeStore(t, names) ==
    /\ pc[t] = "idle" /\ buf_mutex = 0
    /\ \E i \in names :
         LET x == free_cmpxchg(msc)
         IN IF i = -1
            THEN /\ Finish(t, "mode", "EINVAL", 0)
                 /\ UNCHANGED <<msc, buf_mutex>>
            ELSE IF free_unless_used_ret(x.count) # "OK"
            THEN /\ Finish(t, "free", free_unless_used_ret(x.count), 0)
                 /\ UNCHANGED <<msc, buf_mutex>>
            ELSE IF x.count = 0
            THEN /\ msc' = x.msc
                 /\ Goto(t, "ms_free", [s |-> 0, mode |-> i])
                 /\ buf_mutex' = t
            ELSE /\ msc' = [msc EXCEPT !.mode = i]
                 /\ Finish(t, "mode", "OK", 0)
                 /\ UNCHANGED buf_mutex
    /\ UNCHANGED <<wins, mem, pages, files, vmas, output_active, ghost>>

\* ... msc_buffer_free(), msc->mode = i and mutex_unlock()
ModeFree(t) ==
    /\ pc[t] = "ms_free" /\ buf_mutex = t
    /\ LET r == msc_buffer_free(S0)
       IN /\ Commit([r EXCEPT !.msc.mode = loc[t].mode])
          /\ ghost' = Freed
    /\ buf_mutex' = 0
    /\ Finish(t, "mode", "OK", 0)
    /\ UNCHANGED <<files, vmas, output_active>>

\* ------------------------------------------------------ the specification
Init ==
    /\ msc = msc_init
    /\ wins = << >>
    /\ mem = << >>
    /\ pages = {}
    /\ files = [s \in Sessions |-> NoFile]
    /\ vmas = [s \in Sessions |-> 0]
    /\ output_active = "off"
    /\ buf_mutex = 0
    /\ pc = [t \in Threads |-> "idle"]
    /\ loc = [t \in Threads |-> NoLoc]
    /\ ret = NoRet
    /\ ghost = NoGhost
    /\ ops = rules_init

\* One thread drives the configuration attributes and the capture, the
\* others are processes that use the device file.
Admins == {1}
Users == Threads \ Admins

Next ==
    \/ \E t \in Admins :
          \/ ActivateGet(t)
          \/ ActivateLocked(t)
          \/ Deactivate(t, HwFew)
          \/ NrPagesStore(t)
          \/ NrPagesFree(t)
          \/ NrPagesAlloc(t, FewLists)
          \/ NrPagesPublish(t)
          \/ ModeStore(t, FewModes)
          \/ ModeFree(t)
    \/ \E t \in Users, s \in Sessions :
          \/ Open(t, s, FALSE)
          \/ Release(t, s)
          \/ ReadGet(t, s)
          \/ ReadBody(t, {BigLen})
          \/ MmapGet(t, s)
          \/ MmapCheck(t)
          \/ VmOpen(t, s)
          \/ VmClose(t, s)
          \/ VmCloseLocked(t)

Spec == Init /\ [][Next]_vars

\* Any thread writes the configuration attributes, with every list and mode
\* name, or reads the device file.
NextResize ==
    \E t \in Threads :
        \/ NrPagesStore(t)
        \/ NrPagesFree(t)
        \/ NrPagesAlloc(t, SizeLists)
        \/ NrPagesPublish(t)
        \/ ModeStore(t, Modes \cup {-1})
        \/ ModeFree(t)
        \/ \E s \in Sessions :
              \/ Open(t, s, FALSE)
              \/ Release(t, s)
              \/ ReadGet(t, s)
        \/ ReadBody(t, {BigLen})

SpecResize == Init /\ [][NextResize]_vars

\* ------------------------------------------- reading a captured buffer
\* What the hardware can leave in a block header during a capture: no
\* data, one byte or a full block, with or without the wrap and the
\* last-written marks (msu.h).
HwHeaders ==
    [valid_dw : {0, MSC_BDESC + 1, PAGE_SIZE},
     hw_tag : SUBSET {"BLOCKWRAP", "ENDBIT"}]

\* the trace hardware writes the headers of the blocks
HwTrace(S, hdr) ==
    [S EXCEPT !.mem = [p \in DOMAIN @ |->
                         [@[p] EXCEPT !.valid_dw = hdr[p].valid_dw,
                                      !.hw_tag = hdr[p].hw_tag]]]

\* the window lists of at most MaxBlocks blocks
IterLists ==
    {l \in UNION {[1..n -> 1..MaxBlocks] : n \in 1..MaxWins} : SeqSum(l) <= MaxBlocks}

\* nr_pages_store() of list on the fresh device, in mode mode
Allocated(mode, list) ==
    msc_buffer_alloc_publish(
        msc_buffer_alloc_body(
            KState(nr_pages_scan([msc_init EXCEPT !.mode = mode], list, 1, <<>>).msc,
                   << >>, << >>, {}, MaxPfn + 1, Len(list)),
            list))

\* ... then a capture: activate, the hardware runs, deactivate
Captured(S, hdr, hw) ==
    intel_th_msc_deactivate(HwTrace(intel_th_msc_activate(
                                [S EXCEPT !.msc.user_count = @ + 1]), hdr),
                            hw.wrap, S.msc.base_addr + hw.off, hw.nwsa)

\* the rest of the state when nothing is open and no handler runs
AtRest ==
    /\ files = [s \in Sessions |-> NoFile]
    /\ vmas = [s \in Sessions |-> 0]
    /\ output_active = "off"
    /\ buf_mutex = 0
    /\ pc = [t \in Threads |-> "idle"]
    /\ loc = [t \in Threads |-> NoLoc]
    /\ ret = NoRet
    /\ ghost = NoGhost
    /\ ops = rules_init

\* A multi-mode buffer after a capture, with any headers and any saved
\* next-window address.
InitIter ==
    \E list \in IterLists :
      \E A \in {Allocated(MSC_MODE_MULTI, list)} :
        \E hdr \in [A.pages -> HwHeaders],
           nwsa \in {MaxPfn + 1} \cup {Blk(A.wins[w], 0) : w \in DOMAIN A.wins} :
          \E D \in {Captured(A, hdr, [wrap |-> FALSE, off |-> 0, nwsa |-> nwsa])} :
            /\ msc = D.msc
            /\ wins = D.wins
            /\ mem = D.mem
            /\ pages = D.pages
            /\ AtRest

\* one process opens the device file and reads it, in reads of any length
NextRead ==
    \E t \in Users, s \in Sessions :
        \/ Open(t, s, TRUE)
        \/ Release(t, s)
        \/ ReadGet(t, s)
        \/ ReadBody(t, Lens)

SpecIter == InitIter /\ [][NextRead]_vars

\* what an earlier capture can have left in a block: a full block with both
\* marks, or one byte
UsedHeaders ==
    {[valid_dw |-> PAGE_SIZE, hw_tag |-> {"BLOCKWRAP", "ENDBIT"}],
     [valid_dw |-> MSC_BDESC + 1, hw_tag |-> {}]}

\* A multi-mode buffer whose blocks all carry the headers of an earlier
\* capture.
InitCapture ==
    \E list \in FewLists :
      \E A \in {Allocated(MSC_MODE_MULTI, list)} :
        \E hdr \in [A.pages -> UsedHeaders] :
          \E D \in {Captured(A, hdr, [wrap |-> FALSE, off |-> 0,
                                      nwsa |-> MaxPfn + 1])} :
            /\ msc = D.msc
            /\ wins = D.wins
            /\ mem = D.mem
            /\ pages = D.pages
            /\ AtRest

\* every handler, on a device that has captured before
SpecCapture == InitCapture /\ [][Next]_vars

\* A single-mode buffer of any page count after a capture, with any wrap
\* status and write pointer.
InitSingle ==
    \E n \in 1..MaxBlocks :
      \E A \in {Allocated(MSC_MODE_SINGLE, <<n>>)} :
        \E wrap \in BOOLEAN, off \in 0..(n * PAGE_SIZE - 1) :
          \E D \in {Captured(A, << >>, [wrap |-> wrap, off |-> off, nwsa |-> 0])} :
            /\ msc = D.msc
            /\ wins = D.wins
            /\ mem = D.mem
            /\ pages = D.pages
            /\ AtRest

SpecSingle == InitSingle /\ [][NextRead]_vars

\* ------------------------------------------- the window data interface
\* msc_max_blocks()
msc_max_blocks(m) == m.max_blocks

\* msc_current_win_bytes(): reg_nwsa and reg_mwp are what MSC0NWSA and
\* MSC0MWP read.  Returns struct msc, the error and the size.
msc_current_win_bytes(S, reg_nwsa, reg_mwp) ==
    LET m == S.msc
        a == atomic_inc_unless_negative(m)
        put == [a.msc EXCEPT !.user_count = @ - 1]
        w == msc_current_window(S, reg_nwsa)
        win == S.wins[w]
        page == reg_mwp - (reg_mwp % PAGE_SIZE)
        hits == {b \in 0..(win.nr_blocks - 1) : Addr(Blk(win, b)) = page}
        blk == LowestOf(hits)
        offset == reg_mwp % PAGE_SIZE
        after == IF msc_block_wrapped(Bdesc(S, w, blk))
                 THEN SeqSum([i \in 1..(win.nr_blocks - 1 - blk) |->
                                 msc_data_sz(Bdesc(S, w, blk + i))])
                 ELSE 0
        before == SeqSum([i \in 1..blk |-> msc_data_sz(Bdesc(S, w, i - 1))])
    IN IF ~m.enabled \/ m.mode # MSC_MODE_MULTI \/ ~a.ok
       THEN [msc |-> m, err |-> "EINVAL", n |-> 0]
       ELSE IF w = NULL THEN [msc |-> put, err |-> "EINVAL", n |-> 0]
       ELSE IF hits = {} THEN [msc |-> put, err |-> "EINVAL", n |-> 0]
       ELSE [msc |-> put, err |-> "OK", n |-> after + before + (offset - MSC_BDESC)]

\* the do-while loop of msc_sg_oldest_win(): sg is the array filled so far
RECURSIVE sg_loop(_, _, _, _)
sg_loop(S, w, blk, sg) ==
    LET win == S.wins[w]
        sg1 == Append(sg, Blk(win, blk))
        nb == IF blk + 1 = win.nr_blocks THEN 0 ELSE blk + 1
    IN IF "ENDBIT" \in Bdesc(S, w, blk).hw_tag THEN sg1
       ELSE IF Len(sg1) <= win.nr_blocks THEN sg_loop(S, w, nb, sg1)
       ELSE sg1

\* msc_sg_oldest_win(): reg_old and reg_cur are what MSC0NWSA reads in
\* msc_oldest_window() and in msc_current_window().  Returns struct msc, the
\* count and the array.
msc_sg_oldest_win(S, reg_old, reg_cur) ==
    LET m == S.msc
        a == atomic_inc_unless_negative(m)
        put == [a.msc EXCEPT !.user_count = @ - 1]
        S1 == [S EXCEPT !.msc = a.msc]
        w == msc_oldest_window(S1, reg_old)
        c_win == msc_current_window(S1, reg_cur)
        win == S.wins[w]
        blk0 == msc_win_oldest_block(S1, w)
        blk == IF msc_block_wrapped(Bdesc(S, w, blk0))
               THEN IF blk0 + 1 = win.nr_blocks THEN 0 ELSE blk0 + 1
               ELSE blk0
        sg == sg_loop(S1, w, blk, << >>)
    IN IF ~m.enabled \/ m.mode # MSC_MODE_MULTI \/ ~a.ok
       THEN [msc |-> m, err |-> "EINVAL", n |-> 0, sg |-> << >>]
       ELSE IF w = NULL THEN [msc |-> a.msc, err |-> "OK", n |-> 0, sg |-> << >>]
       ELSE IF w = c_win THEN [msc |-> a.msc, err |-> "OK", n |-> 0, sg |-> << >>]
       ELSE [msc |-> put, err |-> "OK", n |-> Len(sg), sg |-> sg]

\* what the write pointer register can read: a place in a page of the
\* buffer, or in a page that is not of the buffer
MwpRegs ==
    {Addr(p) + o : p \in pages \cup {MaxPfn + 1},
                   o \in {0, MSC_BDESC, PAGE_SIZE - 1}}

\* a client of the output (the dvc-source) asks for the size of the current
\* window
CurrentWinBytes(t) ==
    /\ pc[t] = "idle"
    /\ msc.user_count < MaxUsers
    /\ \E reg_nwsa \in NwsaRegs, reg_mwp \in MwpRegs :
         \E r \in {msc_current_win_bytes(S0, reg_nwsa, reg_mwp)} :
            /\ msc' = r.msc
            /\ Finish(t, "win_bytes", r.err, r.n)
    /\ ghost' = NoGhost
    /\ UNCHANGED <<wins, mem, pages, files, vmas, output_active, buf_mutex>>

\* ... or for the blocks of the oldest window
SgOldestWin(t) ==
    /\ pc[t] = "idle"
    /\ msc.user_count < MaxUsers
    /\ \E reg_old \in NwsaRegs, reg_cur \in NwsaRegs :
         \E r \in {msc_sg_oldest_win(S0, reg_old, reg_cur)} :
            /\ msc' = r.msc
            /\ Finish(t, "sg_oldest", r.err, r.n)
    /\ ghost' = NoGhost
    /\ UNCHANGED <<wins, mem, pages, files, vmas, output_active, buf_mutex>>

\* size lists of up to MaxWins + 1 windows
LocLists == IterLists \cup {[i \in 1..(MaxWins + 1) |-> 1]}

\* A multi-mode buffer during a capture: activate has succeeded and the
\* hardware has written any headers.
InitLocate ==
    \E list \in LocLists :
      \E A \in {Allocated(MSC_MODE_MULTI, list)} :
        \E hdr \in [A.pages -> HwHeaders] :
          \E D \in {HwTrace(intel_th_msc_activate(
                                [A EXCEPT !.msc.user_count = @ + 1]), hdr)} :
            /\ msc = D.msc
            /\ wins = D.wins
            /\ mem = D.mem
            /\ pages = D.pages
            /\ files = [s \in Sessions |-> NoFile]
            /\ vmas = [s \in Sessions |-> 0]
            /\ output_active = "on"
            /\ buf_mutex = 0
            /\ pc = [t \in Threads |-> "idle"]
            /\ loc = [t \in Threads |-> NoLoc]
            /\ ret = NoRet
            /\ ghost = NoGhost
            /\ ops = rules_init

NextLocate ==
    \E t \in Admins :
        \/ CurrentWinBytes(t)
        \/ SgOldestWin(t)

SpecLocate == InitLocate /\ [][NextLocate]_vars

\* ------------------------------------------------- mapping the buffer
\* size lists of one and of two pages
MapLists == {<<1>>, <<1, 1>>}

\* The configuration attributes are written while processes map the buffer,
\* duplicate their mappings and close them.
NextMap ==
    \/ \E t \in Admins :
          \/ NrPagesStore(t)
          \/ NrPagesFree(t)
          \/ NrPagesAlloc(t, MapLists)
          \/ NrPagesPublish(t)
          \/ ModeStore(t, {MSC_MODE_SINGLE, MSC_MODE_MULTI})
          \/ ModeFree(t)
    \/ \E t \in Users, s \in Sessions :
          \/ Open(t, s, FALSE)
          \/ Release(t, s)
          \/ MmapGet(t, s)
          \/ MmapCheck(t)
          \/ VmOpen(t, s)
          \/ VmClose(t, s)
          \/ VmCloseLocked(t)

SpecMap == Init /\ [][NextMap]_vars

\* ------------------------------------- reading across a change of size
\* A captured multi-mode buffer is read in reads of any length while the
\* mode and the size of the buffer are written.
NextReread ==
    \/ \E t \in Admins :
          \/ NrPagesStore(t)
          \/ NrPagesFree(t)
          \/ NrPagesAlloc(t, FewLists)
          \/ NrPagesPublish(t)
          \/ ModeStore(t, {MSC_MODE_SINGLE, MSC_MODE_MULTI})
          \/ ModeFree(t)
    \/ \E t \in Users, s \in Sessions :
          \/ Open(t, s, FALSE)
          \/ Release(t, s)
          \/ ReadGet(t, s)
          \/ ReadBody(t, Lens)

SpecReread == InitCapture /\ [][NextReread]_vars

\* A captured single-mode buffer is read while the size of the buffer is
\* written, to one page or to MaxBlocks pages.
NextShrink ==
    \/ \E t \in Admins :
          \/ NrPagesStore(t)
          \/ NrPagesFree(t)
          \/ NrPagesAlloc(t, {<<1>>, <<MaxBlocks>>})
          \/ NrPagesPublish(t)
    \/ \E t \in Users, s \in Sessions :
          \/ Open(t, s, TRUE)
          \/ Release(t, s)
          \/ ReadGet(t, s)
          \/ ReadBody(t, Lens)

SpecShrink == InitSingle /\ [][NextShrink]_vars

\* --------------------------------------------- starting and stopping
\* intel_th_msc_deactivate() on an output that is not active
DeactivateIdle(t) ==
    /\ pc[t] = "idle" /\ buf_mutex = 0
    /\ output_active = "off"
    /\ \E hw \in HwFew :
         Commit(intel_th_msc_deactivate(S0, hw.wrap, msc.base_addr + hw.off, hw.nwsa))
    /\ Finish(t, "deactivate", "OK", 0)
    /\ ghost' = NoGhost
    /\ UNCHANGED <<files, vmas, output_active, buf_mutex>>

\* One thread starts and stops the capture and sets the mode and the size
\* of the buffer, the others open, read and close the device file.
NextActivate ==
    \/ \E t \in Admins :
          \/ ActivateGet(t)
          \/ ActivateLocked(t)
          \/ Deactivate(t, HwFew)
          \/ DeactivateIdle(t)
          \/ NrPagesStore(t)
          \/ NrPagesFree(t)
          \/ NrPagesAlloc(t, FewLists)
          \/ NrPagesPublish(t)
          \/ ModeStore(t, FewModes)
          \/ ModeFree(t)
    \/ \E t \in Users, s \in Sessions :
          \/ Open(t, s, FALSE)
          \/ Release(t, s)
          \/ ReadGet(t, s)
          \/ ReadBody(t, {BigLen})

SpecActivate == Init /\ [][NextActivate]_vars

\* ------------------------------------------------------------ page lookup
\* msc_buffer_contig_get_page(): by page frame
msc_buffer_contig_get_page(m, pgoff) ==
    IF pgoff >= m.nr_pages THEN NOPAGE
    ELSE Pfn(m.base + pgoff * PAGE_SIZE)

\* msc_buffer_get_page() that takes the first block of the window found
msc_buffer_get_page_first(S, pgoff) ==
    LET m == S.msc
        found == {i \in DOMAIN m.win_list :
                    /\ pgoff >= S.wins[m.win_list[i]].pgoff
                    /\ pgoff < S.wins[m.win_list[i]].pgoff
                                  + S.wins[m.win_list[i]].nr_blocks}
    IN IF m.mode = MSC_MODE_SINGLE THEN msc_buffer_contig_get_page(m, pgoff)
       ELSE IF found = {} THEN NOPAGE
       ELSE Blk(S.wins[m.win_list[LowestOf(found)]], 0)

\* msc_buffer_get_page(): the first window of the list whose range holds
\* pgoff, and the block of it at pgoff - win->pgoff
msc_buffer_get_page(S, pgoff) ==
    LET m == S.msc
        found == {i \in DOMAIN m.win_list :
                    /\ pgoff >= S.wins[m.win_list[i]].pgoff
                    /\ pgoff < S.wins[m.win_list[i]].pgoff
                                  + S.wins[m.win_list[i]].nr_blocks}
    IN IF m.mode = MSC_MODE_SINGLE THEN msc_buffer_contig_get_page(m, pgoff)
       ELSE IF found = {} THEN NOPAGE
       ELSE LET win == S.wins[m.win_list[LowestOf(found)]]
            IN Blk(win, pgoff - win.pgoff)

\* msc_mmap_fault() on page pgoff of a mapping of session s: the page, or
\* VM_FAULT_SIGBUS.  It takes no lock.  The reference count and the mapping
\* of the page are not part of the state.
MmapFault(t, s) ==
    /\ pc[t] = "idle"
    /\ vmas[s] > 0
    /\ \E pgoff \in 0..(MaxPfn + 1) :
         \E page \in {msc_buffer_get_page(S0, pgoff)} :
            IF page = NOPAGE THEN Finish(t, "fault", "SIGBUS", pgoff)
            ELSE Finish(t, "fault", "OK", pgoff)
    /\ ghost' = NoGhost
    /\ UNCHANGED <<msc, wins, mem, pages, files, vmas, output_active, buf_mutex>>

\* window lists of MaxBlocks pages
FaultLists == {<<1, 2>>, <<2, 1>>, <<MaxBlocks>>}

\* One thread sets the mode and the size of the buffer, the others map it
\* and touch the pages of the mapping.
NextFault ==
    \/ \E t \in Admins :
          \/ NrPagesStore(t)
          \/ NrPagesFree(t)
          \/ NrPagesAlloc(t, FaultLists)
          \/ NrPagesPublish(t)
          \/ ModeStore(t, {MSC_MODE_SINGLE, MSC_MODE_MULTI})
          \/ ModeFree(t)
    \/ \E t \in Users, s \in Sessions :
          \/ Open(t, s, FALSE)
          \/ Release(t, s)
          \/ MmapGet(t, s)
          \/ MmapCheck(t)
          \/ VmOpen(t, s)
          \/ VmClose(t, s)
          \/ VmCloseLocked(t)
          \/ MmapFault(t, s)

SpecFault == Init /\ [][NextFault]_vars

\* ====================================================== the rule engine
\* struct fib_rule's action values
FR_ACT_TO_TBL == 1
FR_ACT_GOTO == 2
FR_ACT_NOP == 3

\* fib_default_rule_add(): a table rule appended to the list
fib_default_rule_add(O, pref, permanent) ==
    LET id == LowestOf(1..MaxRules \ DOMAIN O.rule)
        r == [action |-> FR_ACT_TO_TBL, pref |-> pref, target |-> 0,
              ctarget |-> NULL, permanent |-> permanent]
    IN [O EXCEPT !.rules_list = Append(@, id),
                 !.rule = [i \in DOMAIN @ \cup {id} |-> IF i = id THEN r ELSE @[i]]]

\* fib_default_rule_pref(): one less than the second rule's preference
fib_default_rule_pref(O) ==
    IF Len(O.rules_list) >= 2 /\ O.rule[O.rules_list[2]].pref # 0
    THEN O.rule[O.rules_list[2]].pref - 1
    ELSE 0

\* rule_exists(); the requests carry no selector but action and preference,
\* and cmp holds the rules ops->compare() accepts
rule_exists(O, rule, cmp) ==
    \E i \in DOMAIN O.rules_list :
       /\ O.rule[O.rules_list[i]].action = rule.action
       /\ O.rule[O.rules_list[i]].pref = rule.pref
       /\ O.rules_list[i] \in cmp

\* fib_nl_newrule(): the first rule whose preference is the goto target
goto_target(O, target) ==
    LET at == {i \in DOMAIN O.rules_list : O.rule[O.rules_list[i]].pref = target}
    IN IF at = {} THEN NULL ELSE O.rules_list[LowestOf(at)]

goto_admitted_any(target, pref) == TRUE

RECURSIVE insert_after_equal(_, _, _)
\* fib_nl_newrule(): backward jumps are prohibited
goto_admitted(target, pref) == target > pref

insert_after_equal(O, pref, i) ==
    IF i > Len(O.rules_list) \/ O.rule[O.rules_list[i]].pref >= pref
    THEN i - 1
    ELSE insert_after_equal(O, pref, i + 1)

\* fib_nl_newrule(): the scan for the rule to insert after, from position i;
\* the result is that rule's position, 0 for the list head
RECURSIVE insert_after(_, _, _)
insert_after(O, pref, i) ==
    IF i > Len(O.rules_list) \/ O.rule[O.rules_list[i]].pref > pref
    THEN i - 1
    ELSE insert_after(O, pref, i + 1)

\* fib_nl_newrule(): unresolved gotos that aim at the new rule's preference
\* are pointed at it, until none is left unresolved
RECURSIVE resolve_gotos(_, _, _)
resolve_gotos(O, id, i) ==
    IF i > Len(O.rules_list) THEN O
    ELSE LET r == O.rules_list[i] IN
         IF /\ O.rule[r].action = FR_ACT_GOTO
            /\ O.rule[r].target = O.rule[id].pref
            /\ O.rule[r].ctarget = NULL
         THEN LET O1 == [O EXCEPT !.rule[r].ctarget = id,
                                  !.unresolved_rules = @ - 1]
              IN IF O1.unresolved_rules = 0 THEN O1
                 ELSE resolve_gotos(O1, id, i + 1)
         ELSE resolve_gotos(O, id, i + 1)

\* fib_nl_newrule(); kzalloc() fails when every rule object is in use, and
\* the requests do not set FIB_RULE_PERMANENT in frh->flags
fib_nl_newrule(O, req) ==
    IF DOMAIN O.rule = 1..MaxRules THEN [ops |-> O, err |-> "ENOMEM", id |-> NULL]
    ELSE
    LET id == LowestOf(1..MaxRules \ DOMAIN O.rule)
        pref == IF req.has_prio THEN req.prio ELSE fib_default_rule_pref(O)
        ctarget == IF req.has_goto THEN goto_target(O, req.goto) ELSE NULL
        rule == [action |-> req.action, pref |-> pref,
                 target |-> IF req.has_goto THEN req.goto ELSE 0,
                 ctarget |-> ctarget, permanent |-> FALSE]
        unresolved == req.has_goto /\ ctarget = NULL
        last == insert_after(O, pref, 1)
        O1 == [O EXCEPT
                 !.rules_list = SubSeq(@, 1, last) \o <<id>> \o SubSeq(@, last + 1, Len(@)),
                 !.rule = [i \in DOMAIN @ \cup {id} |-> IF i = id THEN rule ELSE @[i]]]
        O2 == IF O1.unresolved_rules # 0 THEN resolve_gotos(O1, id, 1) ELSE O1
        O3 == [O2 EXCEPT
                 !.nr_goto_rules = IF rule.action = FR_ACT_GOTO THEN @ + 1 ELSE @,
                 !.unresolved_rules = IF unresolved THEN @ + 1 ELSE @]
        fail(e) == [ops |-> O, err |-> e, id |-> NULL]
    IN IF req.has_goto /\ req.action # FR_ACT_GOTO THEN fail("EINVAL")
       ELSE IF req.has_goto /\ ~goto_admitted(req.goto, pref) THEN fail("EINVAL")
       ELSE IF ~req.has_goto /\ req.action = FR_ACT_GOTO THEN fail("EINVAL")
       ELSE IF req.excl /\ rule_exists(O, rule, req.cmp) THEN fail("EEXIST")
       ELSE IF req.configure_err THEN fail("EINVAL")
       ELSE [ops |-> O3, err |-> "OK", id |-> id]

retarget_uncounted(O, id, n) ==
    LET hit == {r \in Range(O.rules_list) : O.rule[r].ctarget = id}
    IN [O EXCEPT !.rule = [r \in DOMAIN @ |->
                             IF r \in hit THEN [@[r] EXCEPT !.ctarget = n] ELSE @[r]]]

\* fib_nl_delrule(): the gotos resolved to the deleted rule move to n, the
\* next rule of the same preference, or become unresolved
retarget(O, id, n) ==
    LET hit == {r \in Range(O.rules_list) : O.rule[r].ctarget = id}
    IN [O EXCEPT !.rule = [r \in DOMAIN @ |->
                             IF r \in hit THEN [@[r] EXCEPT !.ctarget = n] ELSE @[r]],
                 !.unresolved_rules = IF n = NULL THEN @ + Cardinality(hit) ELSE @]

\* fib_nl_delrule(): the first rule the request selects is unlinked and
\* put; an action of 0 and a missing priority select any rule
fib_nl_delrule(O, req) ==
    LET sel == {i \in DOMAIN O.rules_list :
                  /\ req.action = 0 \/ req.action = O.rule[O.rules_list[i]].action
                  /\ ~req.has_prio \/ O.rule[O.rules_list[i]].pref = req.prio
                  /\ O.rules_list[i] \in req.cmp}
        fail(e) == [ops |-> O, err |-> e, id |-> NULL]
    IN IF sel = {} THEN fail("ENOENT")
       ELSE
       LET i == LowestOf(sel)
           id == O.rules_list[i]
           rule == O.rule[id]
           O1 == [O EXCEPT
                    !.rules_list = SubSeq(@, 1, i - 1) \o SubSeq(@, i + 1, Len(@)),
                    !.nr_goto_rules = IF rule.action = FR_ACT_GOTO THEN @ - 1 ELSE @,
                    !.unresolved_rules =
                        IF rule.action = FR_ACT_GOTO /\ rule.ctarget = NULL
                        THEN @ - 1 ELSE @]
           n == IF i + 1 > Len(O.rules_list) \/ O.rule[O.rules_list[i + 1]].pref # rule.pref
                THEN NULL ELSE O.rules_list[i + 1]
           O2 == IF O1.nr_goto_rules > 0 THEN retarget(O1, id, n) ELSE O1
           O3 == [O2 EXCEPT !.rule = [r \in DOMAIN @ \ {id} |-> @[r]]]
       IN IF rule.permanent THEN fail("EPERM")
          ELSE IF req.delete_err THEN fail("EINVAL")
          ELSE [ops |-> O3, err |-> "OK", id |-> id]

\* fib_rule_match(): fl.hit holds the rules the flow matches
fib_rule_match(rule, fl) == rule \in fl.hit

\* fib_rules_lookup() from position i of the list, visits being the rules
\* matched against so far. fl.again holds the rules whose action returns
\* -EAGAIN or whose result is suppressed. A walk is cut off (ended FALSE)
\* once it has made more visits than a loop-free walk can; a resolved target
\* that is no rule of the list is a stray pointer.
RECURSIVE fib_rules_lookup(_, _, _, _)
fib_rules_lookup(O, fl, i, visits) ==
    LET out(e, r, v, ended, stray) ==
            [err |-> e, rule |-> r, visits |-> v, ended |-> ended, stray |-> stray]
    IN IF i > Len(O.rules_list) THEN out("ESRCH", NULL, visits, TRUE, FALSE)
       ELSE IF Len(visits) > 2 * MaxRules THEN out("none", NULL, visits, FALSE, FALSE)
       ELSE
       LET rule == O.rules_list[i]
           seen == Append(visits, rule)
       IN IF ~fib_rule_match(rule, fl) THEN fib_rules_lookup(O, fl, i + 1, seen)
          ELSE IF O.rule[rule].action = FR_ACT_GOTO
          THEN LET target == O.rule[rule].ctarget IN
               IF target = NULL THEN fib_rules_lookup(O, fl, i + 1, seen)
               ELSE IF target \notin Range(O.rules_list)
               THEN out("none", NULL, seen, TRUE, TRUE)
               ELSE fib_rules_lookup(O, fl,
                        CHOOSE j \in DOMAIN O.rules_list : O.rules_list[j] = target,
                        seen)
          ELSE IF O.rule[rule].action = FR_ACT_NOP
          THEN fib_rules_lookup(O, fl, i + 1, seen)
          ELSE IF rule \in fl.again THEN fib_rules_lookup(O, fl, i + 1, seen)
          ELSE out("OK", rule, seen, TRUE, FALSE)

\* the flows, by the rules they match and the rules that pass them on
Flows == {fl \in [hit : SUBSET (1..MaxRules), again : SUBSET (1..MaxRules)] :
             fl.again \subseteq fl.hit}

\* RTM_NEWRULE requests: with or without FRA_PRIORITY and FRA_GOTO, an
\* attribute that is absent reading as 0; one request stands for those that
\* carry FRA_GOTO with another action than goto, and ops->compare() accepts
\* every rule
NewReqs ==
    {req \in [has_prio : BOOLEAN, prio : 0..MaxPref,
              action : {FR_ACT_TO_TBL, FR_ACT_GOTO, FR_ACT_NOP},
              has_goto : BOOLEAN, goto : 0..(MaxPref + 1),
              excl : BOOLEAN, cmp : {1..MaxRules},
              configure_err : BOOLEAN] :
        /\ ~req.has_prio => req.prio = 0
        /\ ~req.has_goto => req.goto = 0
        /\ (req.has_goto /\ req.action # FR_ACT_GOTO) =>
              (req.action = FR_ACT_TO_TBL /\ req.goto = MaxPref + 1)}

\* RTM_DELRULE requests; ops->compare() accepts every rule, or every rule
\* but one
DelReqs ==
    {req \in [action : {0, FR_ACT_TO_TBL, FR_ACT_GOTO, FR_ACT_NOP},
              has_prio : BOOLEAN, prio : 0..MaxPref,
              cmp : {(1..MaxRules) \ e : e \in {{}} \cup {{i} : i \in 1..MaxRules}},
              delete_err : BOOLEAN] :
        ~req.has_prio => req.prio = 0}

\* the netlink handlers run under the rtnl lock, one at a time
NewRule ==
    \E req \in NewReqs : \E r \in {fib_nl_newrule(ops, req)} :
       /\ ops' = r.ops
       /\ ret' = [op |-> "newrule", err |-> r.err, n |-> 0]
       /\ UNCHANGED <<msc, wins, mem, pages, files, vmas, output_active,
                      buf_mutex, pc, loc, ghost>>

DelRule ==
    \E req \in DelReqs : \E r \in {fib_nl_delrule(ops, req)} :
       /\ ops' = r.ops
       /\ ret' = [op |-> "delrule", err |-> r.err, n |-> 0]
       /\ UNCHANGED <<msc, wins, mem, pages, files, vmas, output_active,
                      buf_mutex, pc, loc, ghost>>

Lookup ==
    \E fl \in Flows : \E r \in {fib_rules_lookup(ops, fl, 1, << >>)} :
       /\ r.ended /\ ~r.stray
       /\ ret' = [op |-> "lookup", err |-> r.err, n |-> 0]
       /\ UNCHANGED <<msc, wins, mem, pages, files, vmas, output_active,
                      buf_mutex, pc, loc, ghost, ops>>

\* a family registers its operations and adds its default rules, in
\* non-decreasing preference order, permanent or not
InitRules ==
    /\ \E a \in 0..MaxPref, b \in 0..MaxPref, k \in 0..2, pa \in BOOLEAN, pb \in BOOLEAN :
          /\ a <= b
          /\ ops = IF k = 0 THEN rules_init
                   ELSE IF k = 1 THEN fib_default_rule_add(rules_init, a, pa)
                   ELSE fib_default_rule_add(
                            fib_default_rule_add(rules_init, a, pa), b, pb)
    /\ msc = msc_init
    /\ wins = << >>
    /\ mem = << >>
    /\ pages = {}
    /\ files = [s \in Sessions |-> NoFile]
    /\ vmas = [s \in Sessions |-> 0]
    /\ output_active = "off"
    /\ buf_mutex = 0
    /\ pc = [t \in Threads |-> "idle"]
    /\ loc = [t \in Threads |-> NoLoc]
    /\ ret = NoRet
    /\ ghost = NoGhost

NextRules ==
    \/ NewRule
    \/ DelRule
    \/ Lookup

SpecRules == InitRules /\ [][NextRules]_vars

\* ------------------------------------------------------------- properties
\* C1 (as amended): capture is never enabled while a reader session is open;
\* an open that finds capture enabled returns -EBUSY; an activate that finds
\* a reader session open fails, with -ENODEV when it found the usage counter
\* negative and with -EBUSY otherwise.
C1_Exclusive ==
    [][/\ ~(msc'.enabled /\ msc'.iter_list # <<>>)
       /\ (ret'.op = "open" /\ msc.enabled) => ret'.err = "EBUSY"
       /\ (ret'.op = "activate" /\ msc.iter_list # <<>>)
            => ret'.err = IF \E t \in Threads : pc[t] = "act_lock" THEN "EBUSY"
                          ELSE "ENODEV"]_vars

\* C1 as stated: every activate that finds a reader session open returns
\* -EBUSY.
C1_ActivateAlwaysBusy ==
    [][/\ ~(msc'.enabled /\ msc'.iter_list # <<>>)
       /\ (ret'.op = "open" /\ msc.enabled) => ret'.err = "EBUSY"
       /\ (ret'.op = "activate" /\ msc.iter_list # <<>>) => ret'.err = "EBUSY"]_vars

\* an activate has been refused because a reader session is open
C1_Witness ==
    /\ ret.op = "activate" /\ ret.err = "EBUSY"
    /\ msc.iter_list # <<>> /\ ~msc.enabled

\* a step tries to free: msc_buffer_free_unless_used() is entered
FreeTried ==
    \E t \in Threads :
        /\ pc[t] = "idle"
        /\ \/ pc'[t] \in {"np_free", "np_scan", "ms_free"}
           \/ ret'.op = "free"
           \/ ret'.op = "mode" /\ ret'.err = "OK" /\ \A u \in Threads : pc[u] # "ms_free"

\* a step tries to allocate: msc_buffer_alloc() is entered
AllocTried ==
    \E t \in Threads :
        /\ pc[t] = "np_scan"
        /\ ret'.op = "alloc" \/ pc'[t] = "np_xchg"

\* C2: an allocate that finds the usage counter zero or positive returns
\* -EBUSY and changes nothing of the buffer; a free that finds the counter
\* positive returns -EBUSY and changes nothing.
C2_Busy ==
    [][/\ (AllocTried /\ msc.user_count >= 0)
            => /\ ret'.op = "alloc" /\ ret'.err = "EBUSY"
               /\ msc' = [msc EXCEPT !.max_blocks = msc'.max_blocks]
               /\ UNCHANGED <<wins, mem, pages>>
       /\ (FreeTried /\ msc.user_count > 0)
            => /\ ret'.op = "free" /\ ret'.err = "EBUSY"
               /\ UNCHANGED <<msc, wins, mem, pages>>]_vars

\* an allocate has been refused on a buffer that another thread allocated
C2_Witness ==
    /\ ret.op = "alloc" /\ ret.err = "EBUSY"
    /\ msc.user_count >= 0 /\ msc.nr_pages > 0

\* a thread or a mapping holds a reference it took on the usage counter
Holder ==
    \/ \E t \in Threads : pc[t] \in {"rd_body", "mm_check", "act_lock"}
    \/ \E s \in Sessions : vmas[s] > 0
    \/ msc.enabled

\* the frames of the buffer that msc describes
BufferFrames ==
    IF msc.mode = MSC_MODE_SINGLE
    THEN {Pfn(msc.base_addr) + i : i \in 0..(msc.nr_pages - 1)}
    ELSE UNION {Range(wins[w].block) : w \in Range(msc.win_list)}

\* the buffer is there: it has pages, they are allocated, and in multi mode
\* every block points to a block of its window and to a window of the list
BufferPresent ==
    /\ msc.mode \in {MSC_MODE_SINGLE, MSC_MODE_MULTI}
    /\ msc.nr_pages > 0
    /\ BufferFrames # {}
    /\ BufferFrames \subseteq pages
    /\ msc.mode = MSC_MODE_MULTI =>
          \A w \in Range(msc.win_list) : \A p \in Range(wins[w].block) :
              /\ mem[p].next_blk \in Range(wins[w].block)
              /\ mem[p].next_win \in {Blk(wins[v], 0) : v \in Range(msc.win_list)}

\* C3: an acquire that finds the usage counter negative fails and leaves the
\* counter alone, and while a reference is held the buffer is allocated,
\* linked, and not released.
C3_HeldBufferStays ==
    [][/\ msc.user_count < 0 =>
            /\ \A t \in Threads :
                  pc[t] = "idle" => pc'[t] \notin {"rd_body", "mm_check", "act_lock"}
            /\ (pc' = pc /\ ret'.op \in {"read", "mmap", "activate"})
                  => msc'.user_count = msc.user_count
       /\ Holder' => BufferPresent']_vars

\* C4: an allocate followed at once by a free leaves the usage counter
\* negative, nr_pages 0 and the window list empty, and the free releases
\* exactly the frames the allocate obtained, which leaves allocated the
\* frames that were allocated before.
C4_AllocateThenFree ==
    ghost.last = "alloc_free" =>
        /\ msc.user_count < 0
        /\ msc.nr_pages = 0
        /\ msc.win_list = <<>>
        /\ pages = ghost.before

\* C5: a multi-mode allocate that fails for want of memory returns -ENOMEM
\* and leaves no window in the list, nr_pages 0, the usage counter negative
\* and every frame it obtained released.
C5_FailedAllocate ==
    [][(ret'.op = "alloc" /\ ret'.err = "ENOMEM" /\ msc.mode = MSC_MODE_MULTI)
            => /\ msc'.win_list = <<>>
               /\ msc'.nr_pages = 0
               /\ msc'.user_count < 0
               /\ pages' \subseteq pages
               /\ DOMAIN wins' = {}]_vars

\* C6: while buf_mutex is not held, the usage counter is negative exactly
\* when no buffer memory is allocated (nr_pages is 0 and the window list is
\* empty); the window list is non-empty only in multi mode; and a counter
\* that is not negative goes with single or multi mode.
C6_CounterRegime ==
    buf_mutex = 0 =>
        /\ msc.user_count < 0 <=> (msc.nr_pages = 0 /\ msc.win_list = <<>>)
        /\ msc.win_list # <<>> => msc.mode = MSC_MODE_MULTI
        /\ msc.user_count >= 0 => msc.mode \in {MSC_MODE_SINGLE, MSC_MODE_MULTI}

\* the block reached from block p by k next_blk hops (NOPAGE off the buffer)
RECURSIVE BlkHop(_, _)
BlkHop(p, k) ==
    IF k = 0 THEN p
    ELSE IF p \notin DOMAIN mem THEN NOPAGE
    ELSE BlkHop(mem[p].next_blk, k - 1)

\* the block reached from block p by k next_win hops
RECURSIVE WinHop(_, _)
WinHop(p, k) ==
    IF k = 0 THEN p
    ELSE IF p \notin DOMAIN mem THEN NOPAGE
    ELSE WinHop(mem[p].next_win, k - 1)

\* from every block of window w the next_blk pointers go once through the
\* blocks of w and come back
BlockRing(w) ==
    LET win == wins[w]
        n == win.nr_blocks
    IN \A b \in Range(win.block) :
          /\ {BlkHop(b, k) : k \in 0..(n - 1)} = Range(win.block)
          /\ BlkHop(b, n) = b

\* from every block of window w the next_win pointers go once through the
\* first blocks of all windows, the next window first, and come back to w
WindowRing(w) ==
    LET n == Len(msc.win_list)
        firsts == {Blk(wins[x], 0) : x \in Range(msc.win_list)}
        first == Blk(wins[w], 0)
    IN \A b \in Range(wins[w].block) :
          /\ {WinHop(b, k) : k \in 1..n} = firsts
          /\ WinHop(b, n) = first
          /\ WinHop(b, 1) = Blk(wins[msc_next_window(msc, w)], 0)

\* msc_buffer_relink() has just run: a multi-mode allocate has succeeded and
\* has not yet published the buffer
Relinked ==
    /\ \E t \in Threads : pc[t] = "np_xchg"
    /\ msc.mode = MSC_MODE_MULTI

\* C7: after the topology linker has run on a non-empty window list, in
\* every window the next-block pointers from any block visit every block of
\* that window exactly once and return to the start, and the next-window
\* pointers from any window visit every window exactly once and return to
\* the first, one window and one block per window included.
C7_Rings ==
    (Relinked /\ msc.win_list # <<>>) =>
        \A w \in Range(msc.win_list) : BlockRing(w) /\ WindowRing(w)

\* the linker has run on two windows of one block each
C7_Witness ==
    /\ Relinked
    /\ Len(msc.win_list) = 2
    /\ \A w \in Range(msc.win_list) : wins[w].nr_blocks = 1

\* how many times x occurs in seq
Count(seq, x) == Cardinality({i \in DOMAIN seq : seq[i] = x})

IsPrefix(a, b) == Len(a) <= Len(b) /\ a = SubSeq(b, 1, Len(a))

\* the block of window w the iterator was first positioned on
StartBlock(iter, w) ==
    iter.g_blks[LowestOf({i \in DOMAIN iter.g_blks : iter.g_blks[i][1] = w})][2]

\* how often the lap visits block b of window w
Visits(iter, w, b) ==
    IF b = StartBlock(iter, w) /\ msc_block_wrapped(Bdesc(S0, w, b)) THEN 2 ELSE 1

\* the iterator is no more than one lap into the buffer, and at the end of
\* the stream it has made the whole lap
OneLap(iter) ==
    /\ \A w \in Range(msc.win_list) : Count(iter.g_wins, w) <= 1
    /\ Range(iter.g_wins) \subseteq Range(msc.win_list)
    /\ \A w \in Range(iter.g_wins) :
          /\ \A b \in 0..(wins[w].nr_blocks - 1) :
                Count(iter.g_blks, <<w, b>>) <= Visits(iter, w, b)
          /\ (iter.eof # 0 \/ w # iter.win) =>
                Count(iter.g_blks, <<w, StartBlock(iter, w)>>)
                    = Visits(iter, w, StartBlock(iter, w))
    /\ iter.eof # 0 => Range(iter.g_wins) = Range(msc.win_list)

\* C8: draining an unstarted iterator with repeated iterate calls makes
\* exactly one lap: every window is entered exactly once, in each window
\* the starting block is visited twice if it is wrap-flagged and once
\* otherwise, every other block at most once, then end-of-stream is
\* reported and nothing more is entered.
C8_OneLap ==
    [][\A s \in Sessions :
         (files'[s].open /\ files'[s].rec /\ msc'.mode = MSC_MODE_MULTI) =>
            /\ OneLap(files[s].iter)' 
            /\ \A t \in Threads :
                  (/\ pc[t] = "rd_body" /\ pc'[t] = "idle" /\ loc[t].s = s
                   /\ files[s].iter.eof # 0)
                  => /\ ret' = [op |-> "read", err |-> "OK", n |-> 0]
                     /\ files'[s].iter = files[s].iter]_vars

\* the stream has ended on a buffer of two windows, one of them of two
\* blocks with a wrap-flagged starting block that was visited twice
C8_Witness ==
    \E s \in Sessions :
       /\ files[s].open /\ files[s].rec
       /\ files[s].iter.eof # 0
       /\ Len(msc.win_list) = 2
       /\ \E w \in Range(msc.win_list) :
             /\ wins[w].nr_blocks = 2
             /\ Count(files[s].iter.g_blks, <<w, StartBlock(files[s].iter, w)>>) = 2
             /\ Len(files[s].out) > DATA_IN_PAGE

\* N patterns were written into the first n blocks of window w, the last of
\* them is marked last-written, nothing wrapped, and no other block of the
\* buffer was written
Pattern(w, n) ==
    /\ \A i \in 0..(n - 1) :
          /\ ~msc_block_is_empty(Bdesc(S0, w, i))
          /\ Bdesc(S0, w, i).hw_tag = IF i = n - 1 THEN {"ENDBIT"} ELSE {}
    /\ \A x \in Range(msc.win_list) : \A i \in 0..(wins[x].nr_blocks - 1) :
          (x # w \/ i >= n) => /\ Bdesc(S0, x, i).valid_dw = 0
                               /\ Bdesc(S0, x, i).hw_tag = {}

\* the data bytes of the first n blocks of window w, in block order
RECURSIVE PatternBytes(_, _)
PatternBytes(w, n) ==
    IF n = 0 THEN << >>
    ELSE PatternBytes(w, n - 1)
         \o Bytes(Addr(Blk(wins[w], n - 1)) + MSC_BDESC,
                  msc_data_sz(Bdesc(S0, w, n - 1)))

\* C9: when N distinguishable patterns were written into N consecutive
\* blocks of a window without wrap and the last is marked last-written,
\* draining the buffer through the iterator delivers exactly the N patterns
\* concatenated in write order, oldest first, with nothing before, between
\* or after them.
C9_RoundTrip ==
    \A s \in Sessions, w \in Range(msc.win_list) :
       \A n \in 1..wins[w].nr_blocks :
          (/\ files[s].open /\ files[s].rec
           /\ msc.mode = MSC_MODE_MULTI
           /\ Pattern(w, n))
          => /\ IsPrefix(files[s].out, PatternBytes(w, n))
             /\ files[s].iter.eof # 0 => files[s].out = PatternBytes(w, n)

\* the stream has ended after a window of MaxBlocks patterns
C9_Witness ==
    \E s \in Sessions, w \in Range(msc.win_list) :
       /\ files[s].open /\ files[s].rec
       /\ wins[w].nr_blocks = MaxBlocks
       /\ Pattern(w, MaxBlocks)
       /\ files[s].iter.eof # 0
       /\ files[s].out = PatternBytes(w, MaxBlocks)
       /\ Len(files[s].out) > MaxBlocks

\* the single-mode region in chronological order after a wrap: from the
\* saved write offset to the end, then from the start to the write offset
Chronological ==
    LET size == msc.nr_pages * PAGE_SIZE
    IN Bytes(msc.base + msc.single_sz, size - msc.single_sz)
       \o Bytes(msc.base, msc.single_sz)

\* C10: in single mode with wrap recorded, for every page count and saved
\* write offset W, sequential reads from offset 0 to end-of-data, split in
\* any way, deliver the region bytes [W, end) followed by [0, W): exactly
\* region-size bytes in chronological order.
C10_WrappedRead ==
    [][\A s \in Sessions :
         (/\ files'[s].open /\ files'[s].rec
          /\ msc.mode = MSC_MODE_SINGLE /\ msc.single_wrap)
         => /\ IsPrefix(files'[s].out, Chronological)
            /\ \A t \in Threads :
                  (/\ pc[t] = "rd_body" /\ pc'[t] = "idle" /\ loc[t].s = s
                   /\ ret' = [op |-> "read", err |-> "OK", n |-> 0])
                  => files'[s].out = Chronological]_vars

\* C11: in single mode without wrap and with saved write offset W,
\* sequential reads from offset 0 deliver exactly W bytes in total, equal to
\* the region bytes [0, W), and every read that starts at an offset >= W
\* returns 0.
C11_PlainRead ==
    [][\A s \in Sessions :
         (/\ files'[s].open /\ files'[s].rec
          /\ msc.mode = MSC_MODE_SINGLE /\ ~msc.single_wrap)
         => /\ IsPrefix(files'[s].out, Bytes(msc.base, msc.single_sz))
            /\ files'[s].pos = Len(files'[s].out)
            /\ \A t \in Threads :
                  (/\ pc[t] = "rd_body" /\ pc'[t] = "idle" /\ loc[t].s = s
                   /\ ret'.op = "read") =>
                     /\ ret' = [op |-> "read", err |-> "OK", n |-> 0]
                           => files'[s].out = Bytes(msc.base, msc.single_sz)
                     /\ files[s].pos >= msc.single_sz
                           => ret' = [op |-> "read", err |-> "OK", n |-> 0]]_vars

\* a region of three pages with the write offset one byte into the last
\* page was read to its end, and the read at the write offset returned 0
C11_Witness ==
    \E s \in Sessions :
       /\ files[s].open /\ files[s].rec
       /\ msc.mode = MSC_MODE_SINGLE /\ ~msc.single_wrap
       /\ msc.nr_pages = 3
       /\ msc.single_sz = 2 * PAGE_SIZE + 1
       /\ files[s].out = Bytes(msc.base, msc.single_sz)
       /\ ret = [op |-> "read", err |-> "OK", n |-> 0]

\* the window that comes before the one at position i of the list, in ring
\* order
RingBefore(i) == IF i = 1 THEN Last(msc.win_list) ELSE msc.win_list[i - 1]

\* C12: for every non-empty window list and every reported next-window
\* address, msc_current_window() returns the window that precedes, in ring
\* order, the window whose first block has that address (the last window for
\* a match on the first), the last window of the list if no window matches,
\* and never fails.
C12_CurrentWindow ==
    \A reg \in NwsaRegs :
       msc.win_list # <<>> =>
          LET r == msc_current_window(S0, reg)
              hit == {i \in DOMAIN msc.win_list :
                         Blk(wins[msc.win_list[i]], 0) = reg}
          IN /\ r # NULL
             /\ \A i \in hit : r = RingBefore(i)
             /\ hit = {} => r = Last(msc.win_list)

\* on a list of three windows, the size of the current window was asked and
\* answered; a match on the second window gives the first, a match on the
\* first gives the third
C12_Witness ==
    /\ Len(msc.win_list) = 3
    /\ ret.op = "win_bytes" /\ ret.err = "OK"
    /\ msc_current_window(S0, Blk(wins[msc.win_list[2]], 0)) = msc.win_list[1]
    /\ msc_current_window(S0, Blk(wins[msc.win_list[1]], 0)) = msc.win_list[3]

\* the positions of the list, from the window whose first block is at
\* address nwsa on, of the windows whose first block is not empty
AtOrAfterMatch(nwsa) ==
    {j \in DOMAIN msc.win_list :
        /\ \E i \in 1..j : Addr(Blk(wins[msc.win_list[i]], 0)) = nwsa
        /\ ~msc_block_is_empty(Bdesc(S0, msc.win_list[j], 0))}

\* C13: for every non-empty window list, header state and reported
\* next-window address, msc_oldest_window() returns the first window, in list
\* order from the window whose first block has that address (included),
\* whose first block is not empty; when the list ends without one it returns
\* the first window of the list, and the scan does not wrap around.
C13_OldestWindow ==
    \A reg \in NwsaRegs :
       msc.win_list # <<>> =>
          LET nwsa == IF msc.enabled THEN reg * PAGE_SIZE ELSE msc.nwsa
              r == msc_oldest_window(S0, reg)
          IN IF AtOrAfterMatch(nwsa) # {}
             THEN r = msc.win_list[LowestOf(AtOrAfterMatch(nwsa))]
             ELSE r = msc.win_list[1]

\* on a list of three windows the blocks of the oldest window were asked
\* for; with the second window reported and empty the third is the oldest,
\* and with the third reported and empty it is the first, though the second
\* holds data
C13_Witness ==
    /\ Len(msc.win_list) = 3
    /\ ret.op = "sg_oldest" /\ ret.err = "OK"
    /\ \/ /\ msc_block_is_empty(Bdesc(S0, msc.win_list[2], 0))
          /\ ~msc_block_is_empty(Bdesc(S0, msc.win_list[3], 0))
          /\ msc_oldest_window(S0, Blk(wins[msc.win_list[2]], 0)) = msc.win_list[3]
          /\ ret.n > 0
       \/ /\ msc_block_is_empty(Bdesc(S0, msc.win_list[3], 0))
          /\ ~msc_block_is_empty(Bdesc(S0, msc.win_list[2], 0))
          /\ msc_oldest_window(S0, Blk(wins[msc.win_list[3]], 0)) = msc.win_list[1]
          /\ ret.n > 0

\* a mode_store() with the name of a mode runs its
\* msc_buffer_unlocked_free_unless_used() in this step
ModeTried == \E t \in Threads : ModeStore(t, Modes)

\* C14: a set_mode that finds the usage counter 0 and a buffer allocated
\* succeeds only after it has freed the buffer under the old mode, and then
\* the usage counter is negative, the window list is empty, nr_pages is 0
\* and mode is the new mode; a set_mode that finds the usage counter
\* positive returns -EBUSY and leaves mode and allocation as they were.
C14_SetMode ==
    [][/\ (ModeTried /\ msc.user_count = 0 /\ BufferPresent)
            => /\ ret' = NoRet
               /\ \E t \in Threads : pc'[t] = "ms_free"
               /\ msc'.mode = msc.mode
       /\ \A t \in Threads :
             (pc[t] = "ms_free" /\ pc'[t] = "idle")
                => /\ ret' = [op |-> "mode", err |-> "OK", n |-> 0]
                   /\ msc'.user_count < 0
                   /\ msc'.win_list = <<>>
                   /\ msc'.nr_pages = 0
                   /\ msc'.mode = loc[t].mode
                   /\ BufferFrames \cap pages' = {}
       /\ (ModeTried /\ msc.user_count > 0)
            => /\ ret' = [op |-> "free", err |-> "EBUSY", n |-> 0]
               /\ UNCHANGED <<msc, wins, mem, pages>>]_vars

\* a nr_pages_store() runs its msc_buffer_free_unless_used() in this step
ResizeTried == \E t \in Threads : NrPagesStore(t)

\* C15: whenever capture is enabled the usage counter is at least 1, and a
\* free, a set_mode or a resize attempted while capture is enabled returns
\* -EBUSY and changes neither the mode nor the allocation.
C15_EnabledHeld ==
    [][/\ msc.enabled => msc.user_count >= 1
       /\ msc'.enabled => msc'.user_count >= 1
       /\ (msc.enabled /\ (FreeTried \/ ModeTried \/ ResizeTried))
            => /\ ret' = [op |-> "free", err |-> "EBUSY", n |-> 0]
               /\ UNCHANGED <<msc, wins, mem, pages>>]_vars

\* no handler is running, no capture is enabled and no mapping is left
AllClosed ==
    /\ \A t \in Threads : pc[t] = "idle"
    /\ \A s \in Sessions : vmas[s] = 0
    /\ ~msc.enabled
    /\ buf_mutex = 0

\* C16: once every mapping of the buffer has been closed, every
\* usage-counter reference taken by mmap has been released: with no capture
\* enabled and no read in flight the usage counter of the allocated buffer
\* is 0 again, so that a free succeeds.
C16_MappingsClosed ==
    (AllClosed /\ BufferPresent) => msc.user_count = 0

\* C17: an mmap succeeds only with page offset 0 and a size of exactly
\* nr_pages pages of a buffer that is allocated; an mmap of any other size
\* or offset, or with no buffer allocated, returns -EINVAL and leaves the
\* usage counter and the mapping counter as they were before the call.
C17_MmapArguments ==
    [][/\ (ret'.op = "mmap" /\ ret'.err = "OK")
            => \E t \in Threads :
                  /\ pc[t] = "mm_check" /\ pc'[t] = "idle"
                  /\ loc[t].pgoff = 0
                  /\ loc[t].size = msc.nr_pages * PAGE_SIZE
                  /\ msc.nr_pages > 0
       /\ \A t \in Threads :
             /\ (pc[t] = "idle" /\ pc'[t] = "mm_check")
                   => /\ loc'[t].pgoff = 0
                      /\ loc'[t].size > 0 /\ loc'[t].size % PAGE_SIZE = 0
                      /\ msc.user_count >= 0
                      /\ msc' = [msc EXCEPT !.user_count = @ + 1]
             /\ (/\ pc[t] = "mm_check" /\ pc'[t] = "idle"
                 /\ loc[t].size # msc.nr_pages * PAGE_SIZE)
                   => /\ ret' = [op |-> "mmap", err |-> "EINVAL", n |-> 0]
                      /\ msc' = [msc EXCEPT !.user_count = @ - 1]
                      /\ vmas' = vmas
       /\ (ret'.op = "mmap" /\ pc' = pc)
            => /\ ret'.err = "EINVAL"
               /\ UNCHANGED <<msc, vmas>>]_vars

\* an mmap of one page more than the buffer has been refused, and the
\* counters are what they were before it
C17_Witness ==
    /\ ret = [op |-> "mmap", err |-> "EINVAL", n |-> 0]
    /\ msc.nr_pages > 0 /\ BufferPresent
    /\ msc.user_count = 0 /\ msc.mmap_count = 0
    /\ \E s \in Sessions : files[s].open /\ vmas[s] = 0

\* C18: a nr_pages_store() or a mode_store() that returns an error leaves
\* the buffer as it was when the call began: the mode, the window list and
\* the contiguous region, nr_pages and the usage counter, also when the
\* buffer was allocated and idle and the size list is malformed or the
\* allocation fails.
C18_FailedStoreKeeps ==
    [][/\ \A t \in Threads :
             (pc[t] = "np_scan" /\ pc'[t] = "idle" /\ ret'.err # "OK")
                => BufState(msc') = loc[t].entry
       /\ ((FreeTried \/ ModeTried \/ \E t \in Threads : ModeStore(t, {-1}))
           /\ ret'.err # "OK")
            => BufState(msc') = BufState(msc)]_vars

\* a size list that is to be refused: it has a zero entry or an entry that
\* is not a number, or more than one entry while the mode is single
Refused(toks) ==
    \/ \E i \in DOMAIN toks : toks[i] = 0 \/ toks[i] = BadToken
    \/ Len(toks) > 1 /\ msc.mode = MSC_MODE_SINGLE

\* C19: a nr_pages_store() of a size list that has a zero entry, that is
\* malformed, or that has more than one entry in single mode returns
\* -EINVAL and allocates nothing.
C19_RefusedLists ==
    [][\A toks \in SizeLists :
          (Refused(toks) /\ \E t \in Threads : NrPagesAlloc(t, {toks}))
             => /\ ret'.err = "EINVAL"
                /\ UNCHANGED <<wins, mem, pages>>
                /\ msc'.nr_pages = msc.nr_pages
                /\ msc'.win_list = msc.win_list]_vars

\* the mode is not one the driver supports
OtherMode == msc.mode \notin {MSC_MODE_SINGLE, MSC_MODE_MULTI}

\* C20: with a mode other than single and multi, an allocate returns
\* -ENOTSUPP, leaves the usage counter negative and allocates no memory, and
\* msc_configure() returns -ENOTSUPP, leaves capture disabled, and
\* intel_th_msc_activate() gives back the reference it took.
C20_OtherMode ==
    [][/\ (AllocTried /\ OtherMode)
            => /\ ret' = [op |-> "alloc", err |-> "ENOTSUPP", n |-> 0]
               /\ msc'.user_count < 0
               /\ msc'.user_count = msc.user_count
               /\ msc'.nr_pages = msc.nr_pages
               /\ UNCHANGED <<wins, mem, pages>>
       /\ \A t \in Threads :
             (/\ pc[t] = "act_lock" /\ pc'[t] = "idle"
              /\ OtherMode /\ msc.iter_list = <<>>)
                => /\ ret' = [op |-> "activate", err |-> "ENOTSUPP", n |-> 0]
                   /\ ~msc'.enabled /\ output_active' = "off"
                   /\ msc'.user_count = msc.user_count - 1]_vars

\* C21: after the topology linker has run, in every block next_blk is the
\* address of the following block of its window, or of the window's first
\* block for the last block; next_win is the address of the first block of
\* the following window, or of the first window for a block of the last
\* window; MSC_SW_TAG_LASTBLK is set exactly in the last block of a window
\* and MSC_SW_TAG_LASTWIN exactly in the blocks of the last window.
C21_Linkage ==
    Relinked =>
        \A i \in DOMAIN msc.win_list :
           LET win == wins[msc.win_list[i]]
               last_win == i = Len(msc.win_list)
               next == wins[msc.win_list[IF last_win THEN 1 ELSE i + 1]]
           IN \A b \in 0..(win.nr_blocks - 1) :
                 LET d == mem[Blk(win, b)]
                     last_blk == b = win.nr_blocks - 1
                 IN /\ d.next_blk = Pfn(Addr(Blk(win, IF last_blk THEN 0 ELSE b + 1)))
                    /\ d.next_win = Pfn(Addr(Blk(next, 0)))
                    /\ "LASTBLK" \in d.sw_tag <=> last_blk
                    /\ "LASTWIN" \in d.sw_tag <=> last_win

\* the linker has run on a window of two blocks followed by a window of one
C21_Witness ==
    /\ Relinked
    /\ Len(msc.win_list) = 2
    /\ wins[msc.win_list[1]].nr_blocks = 2
    /\ wins[msc.win_list[2]].nr_blocks = 1
    /\ mem[Blk(wins[msc.win_list[1]], 1)].sw_tag = {"LASTBLK"}
    /\ mem[Blk(wins[msc.win_list[2]], 0)].sw_tag = {"LASTBLK", "LASTWIN"}

\* the blocks of window w that are flagged last-written
LastWritten(w) ==
    {b \in 0..(wins[w].nr_blocks - 1) : msc_block_last_written(Bdesc(S0, w, b))}

\* C22: for every window and header state msc_win_oldest_block() returns 0
\* when the first block of the window is not wrap-flagged; otherwise it
\* returns the lowest index of a block flagged last-written, or 0 when no
\* block is flagged.
C22_OldestBlock ==
    \A w \in Range(msc.win_list) :
       msc_win_oldest_block(S0, w) =
          IF ~msc_block_wrapped(Bdesc(S0, w, 0)) THEN 0
          ELSE IF LastWritten(w) = {} THEN 0
          ELSE LowestOf(LastWritten(w))

\* the blocks of the oldest window were asked for, in a buffer that has a
\* wrapped window whose first last-written block is not block 0 and a
\* window that is not wrapped but has a last-written block
C22_Witness ==
    /\ ret.op = "sg_oldest" /\ ret.err = "OK"
    /\ \E w \in Range(msc.win_list) :
          /\ msc_block_wrapped(Bdesc(S0, w, 0))
          /\ LastWritten(w) # {} /\ 0 \notin LastWritten(w)
          /\ msc_win_oldest_block(S0, w) > 0
    /\ \E w \in Range(msc.win_list) :
          /\ ~msc_block_wrapped(Bdesc(S0, w, 0)) /\ LastWritten(w) # {}

\* the head segment of block b of window w: its valid bytes
HeadSeg(w, b) ==
    Bytes(Addr(Blk(wins[w], b)) + MSC_BDESC, msc_data_sz(Bdesc(S0, w, b)))

\* the tail segment: from the valid bytes to the end of the data area
TailSeg(w, b) ==
    Bytes(Addr(Blk(wins[w], b)) + MSC_BDESC + msc_data_sz(Bdesc(S0, w, b)),
          DATA_IN_PAGE - msc_data_sz(Bdesc(S0, w, b)))

\* the heads of the k blocks that follow block b in the ring of window w
RECURSIVE HeadsAfter(_, _, _)
HeadsAfter(w, b, k) ==
    IF k = 0 THEN << >>
    ELSE HeadsAfter(w, b, k - 1) \o HeadSeg(w, (b + k) % wins[w].nr_blocks)

\* the oldest block of window w is wrap-flagged
OldestWrapped(w) == msc_block_wrapped(Bdesc(S0, w, msc_win_oldest_block(S0, w)))

\* what a window with a wrap-flagged oldest block is to deliver
WrappedStream(w) ==
    LET b == msc_win_oldest_block(S0, w)
    IN TailSeg(w, b) \o HeadsAfter(w, b, wins[w].nr_blocks - 1) \o HeadSeg(w, b)

\* the wrapped streams of the first n windows of ws, one after the other
RECURSIVE WrappedStreams(_, _)
WrappedStreams(ws, n) ==
    IF n = 0 THEN << >> ELSE WrappedStreams(ws, n - 1) \o WrappedStream(ws[n])

\* C23: when the iterator positions itself on a window whose oldest block is
\* wrap-flagged it sets wrap_count to 2 and delivers the tail segment of
\* that block, then the data of the other blocks of the window in ring
\* order, then the head segment of the same block, and only then goes to
\* the next window; when the oldest block is not wrap-flagged wrap_count is
\* 0.
C23_WrappedWindow ==
    \A s \in Sessions :
       LET iter == files[s].iter
           ws == iter.g_wins
           n == Len(ws)
       IN (files[s].open /\ files[s].rec /\ msc.mode = MSC_MODE_MULTI /\ n > 0) =>
            /\ iter.eof = 0 =>
                  iter.wrap_count =
                     IF ~OldestWrapped(iter.win) THEN 0
                     ELSE IF Count(iter.g_blks, <<iter.win, iter.start_block>>) = 1
                             /\ iter.block = iter.start_block
                          THEN 2
                     ELSE 1
            /\ (\A i \in 1..n : OldestWrapped(ws[i])) =>
                  /\ IsPrefix(files[s].out, WrappedStreams(ws, n))
                  /\ Len(files[s].out) >= Len(WrappedStreams(ws, n - 1))
                  /\ iter.eof # 0 => files[s].out = WrappedStreams(ws, n)

\* the stream has ended on a buffer of a window of two blocks and a window
\* of one, both with a wrap-flagged oldest block, the first of them block 1
C23_Witness ==
    \E s \in Sessions :
       /\ files[s].open /\ files[s].rec
       /\ files[s].iter.eof # 0
       /\ Len(files[s].iter.g_wins) = 2
       /\ \A w \in Range(msc.win_list) : OldestWrapped(w)
       /\ \E w \in Range(msc.win_list) :
             /\ wins[w].nr_blocks = 2
             /\ msc_win_oldest_block(S0, w) = 1
             /\ Len(TailSeg(w, 1)) > 0 /\ Len(HeadSeg(w, 1)) > 0 /\ Len(HeadSeg(w, 0)) > 0
       /\ files[s].out = WrappedStreams(files[s].iter.g_wins, 2)

\* the iterator of session s stands on the starting block of a window with
\* wrap_count 2: what it reads there is the tail segment
OnTail(s) ==
    /\ files[s].open /\ files[s].rec
    /\ msc.mode = MSC_MODE_MULTI
    /\ files[s].iter.start_win # NULL /\ files[s].iter.eof = 0
    /\ files[s].iter.wrap_count = 2
    /\ files[s].iter.block = files[s].iter.start_block

\* C24 (as amended): on the block advance that follows the tail segment of
\* the starting block (wrap_count 2) the iterator takes wrap_count to 1 and
\* goes to the next block of the same window, wrapping within the window;
\* it does not leave the window.
C24_TailThenNextBlock ==
    \A s \in Sessions :
       OnTail(s) =>
          LET iter == files[s].iter
              r == msc_iter_block_advance(S0, iter)
          IN /\ r.ret = 0
             /\ r.iter.wrap_count = 1
             /\ r.iter.eof = 0
             /\ r.iter.win = iter.win
             /\ r.iter.start_block = iter.start_block
             /\ r.iter.block = (iter.block + 1) % wins[iter.win].nr_blocks
             /\ r.iter.block_off = 0
             /\ r.iter.g_wins = iter.g_wins

\* C24 as stated: on that block advance the iterator takes wrap_count to 1
\* and advances to the next window.
C24_TailThenNextWindow ==
    \A s \in Sessions :
       OnTail(s) =>
          LET iter == files[s].iter
          IN msc_iter_block_advance(S0, iter) =
                msc_iter_win_advance(S0, [iter EXCEPT !.block_off = 0,
                                                      !.wrap_count = 1])

\* the tail segment of the starting block of the first window of two has
\* been read, and the iterator stands on the next block of that window
\* with wrap_count 1
C24_Witness ==
    \E s \in Sessions :
       /\ files[s].open /\ files[s].rec
       /\ Len(msc.win_list) = 2
       /\ files[s].iter.eof = 0
       /\ files[s].iter.g_wins = <<files[s].iter.win>>
       /\ wins[files[s].iter.win].nr_blocks = 2
       /\ files[s].iter.wrap_count = 1
       /\ files[s].iter.block # files[s].iter.start_block
       /\ files[s].iter.block_off = 0
       /\ files[s].out = TailSeg(files[s].iter.win, files[s].iter.start_block)
       /\ Len(files[s].out) > 0

\* the bytes one msc_buffer_iterate() call hands to a sink that takes
\* everything, from the iterator iter on
Drain(iter) ==
    msc_buffer_iterate(S0, iter, BigLen, UserBuf(BigLen), MaxPfn + 1).u.data

\* C25: however a drain is split into reads of any lengths, and whichever
\* of them meet a sink that takes fewer bytes than offered, the bytes taken
\* so far followed by what one drain with an unbounded sink yields from the
\* cursor on are the bytes of one unbounded drain from the start: the
\* cursor is at the first byte not taken, nothing is skipped or repeated.
C25_SplitDrain ==
    \A s \in Sessions :
       (files[s].open /\ files[s].rec /\ msc.mode = MSC_MODE_MULTI) =>
          \E whole \in {Drain(msc_iter_init)} :
             /\ files[s].out \o Drain(files[s].iter) = whole
             /\ files[s].iter.offset = Len(files[s].out)
             /\ files[s].pos = Len(files[s].out)
             /\ files[s].iter.eof # 0 => files[s].out = whole

\* a read that met a sink taking nothing has just returned 0 with the cursor
\* inside a block of the second window, bytes before it taken and bytes
\* after it still to come
C25_Witness ==
    \E s \in Sessions :
       /\ files[s].open /\ files[s].rec /\ msc.mode = MSC_MODE_MULTI
       /\ ret.op = "read" /\ ret.err = "OK" /\ ret.n = 0
       /\ files[s].iter.eof = 0
       /\ Len(files[s].iter.g_wins) = 2
       /\ files[s].iter.block_off > 0
       /\ Len(files[s].out) > files[s].iter.block_off
       /\ Len(Drain(files[s].iter)) > 1
       /\ files[s].out \o Drain(files[s].iter) = Drain(msc_iter_init)

\* the positions the iterator took on blocks of window w
WinVisits(iter, w) ==
    Cardinality({i \in DOMAIN iter.g_blks : iter.g_blks[i][1] = w})

\* the iterator after calls of msc_buffer_iterate() for len bytes with a
\* sink that takes them all, from iter on, until end-of-stream or until k
\* calls were made
RECURSIVE IterAtEof(_, _, _)
IterAtEof(iter, len, k) ==
    IF iter.eof # 0 \/ k = 0 THEN iter
    ELSE IterAtEof(msc_buffer_iterate(S0, iter, len, UserBuf(len), MaxPfn + 1).iter,
                   len, k - 1)

\* calls that always suffice: one per data byte of the buffer, and one more
MaxCalls == msc.nr_pages * DATA_IN_PAGE + 1

\* C26: with the block headers as they are, whatever they are, calling
\* iterate again and again with a sink that takes every byte reaches
\* end-of-stream within a bounded number of calls from any cursor, and at no
\* time has the iterator positioned itself more than nr_blocks + 1 times on
\* blocks of one window.
C26_DrainEnds ==
    \A s \in Sessions :
       (files[s].open /\ files[s].rec /\ msc.mode = MSC_MODE_MULTI) =>
          /\ \A w \in DOMAIN wins :
                WinVisits(files[s].iter, w) <= wins[w].nr_blocks + 1
          /\ \A len \in Lens :
                \E last \in {IterAtEof(files[s].iter, len, MaxCalls)} :
                   /\ last.eof # 0
                   /\ \A w \in DOMAIN wins :
                         WinVisits(last, w) <= wins[w].nr_blocks + 1

\* end-of-stream was reached over two windows, one wrapped and visited
\* nr_blocks + 1 times, the other without wrap flag and without a
\* last-written block and visited nr_blocks times
C26_Witness ==
    \E s \in Sessions :
       /\ files[s].open /\ files[s].rec /\ msc.mode = MSC_MODE_MULTI
       /\ files[s].iter.eof # 0
       /\ Len(msc.win_list) = 2
       /\ \E w \in DOMAIN wins :
             /\ OldestWrapped(w)
             /\ WinVisits(files[s].iter, w) = wins[w].nr_blocks + 1
       /\ \E w \in DOMAIN wins :
             /\ ~OldestWrapped(w)
             /\ LastWritten(w) = {}
             /\ WinVisits(files[s].iter, w) = wins[w].nr_blocks

\* the fields of a block descriptor that software writes
Linkage(d) ==
    [next_blk |-> d.next_blk, next_win |-> d.next_win,
     sw_tag |-> d.sw_tag, block_sz |-> d.block_sz]

\* the blocks of the windows of the list
ListedBlocks ==
    UNION {Range(wins[w].block) : w \in Range(msc.win_list)}

\* C27: a successful activate of a multi-mode buffer leaves every field the
\* hardware writes zero in every block of every window and every block's
\* next-block, next-window, tags and block size as they were; and no step of
\* any handler changes these of a block that stays allocated.
C27_HeadersCleared ==
    [][/\ \A t \in Threads :
             (/\ pc[t] = "act_lock" /\ pc'[t] = "idle"
              /\ ret'.err = "OK" /\ msc.mode = MSC_MODE_MULTI)
             => /\ ListedBlocks' = ListedBlocks
                /\ \A p \in ListedBlocks :
                      /\ mem'[p].hw_tag = {}
                      /\ mem'[p].valid_dw = 0
                      /\ Linkage(mem'[p]) = Linkage(mem[p])
       /\ \A p \in DOMAIN mem \cap DOMAIN mem' :
             Linkage(mem'[p]) = Linkage(mem[p])]_vars

\* capture has just been enabled on two windows whose blocks are linked
\* and whose headers are clear
C27_Witness ==
    /\ ret = [op |-> "activate", err |-> "OK", n |-> 0]
    /\ msc.enabled /\ msc.mode = MSC_MODE_MULTI
    /\ Len(msc.win_list) = 2
    /\ \A p \in ListedBlocks :
          /\ mem[p].hw_tag = {} /\ mem[p].valid_dw = 0
          /\ "LASTBLK" \in mem[p].sw_tag
          /\ mem[p].next_win \in {Pfn(Addr(q)) : q \in ListedBlocks \ {p}}
    /\ \E p \in ListedBlocks : "LASTWIN" \in mem[p].sw_tag

\* the block counts of the first n windows of the list, added up
RECURSIVE BlocksBefore(_)
BlocksBefore(n) ==
    IF n = 0 THEN 0
    ELSE BlocksBefore(n - 1) + wins[msc.win_list[n]].nr_blocks

\* the (window, block) pairs of the list whose page offset is pg
PlacesOf(pg) ==
    {<<i, b>> \in (DOMAIN msc.win_list) \X (0..MaxBlocks) :
        /\ b < wins[msc.win_list[i]].nr_blocks
        /\ wins[msc.win_list[i]].pgoff + b = pg}

LinkedAndPublished ==
    /\ \A w \in Range(msc.win_list) :
          \A blk \in 0..(wins[w].nr_blocks - 1) :
             /\ Blk(wins[w], blk) \in DOMAIN mem
             /\ Linkage(mem[Blk(wins[w], blk)]) = Linkage(relink_desc(S0, w, blk))
    /\ \A u \in Threads : pc[u] # "np_xchg"

\* C29: whenever activate configures a multi-mode buffer for capture with
\* success, the linker has before that step written the linkage of every
\* block of every window, and the allocation has published the buffer by
\* taking the usage counter from negative to 0.
C29_LinkedBeforeCapture ==
    [][\A t \in Threads :
          (/\ pc[t] = "act_lock" /\ pc'[t] = "idle"
           /\ ret'.err = "OK"
           /\ msc.mode = MSC_MODE_MULTI /\ msc.win_list # <<>>)
          => /\ LinkedAndPublished
             /\ LinkedAndPublished'
             /\ msc'.enabled]_vars

\* capture has just been enabled on a linked buffer of two windows
C29_Witness ==
    /\ ret = [op |-> "activate", err |-> "OK", n |-> 0]
    /\ msc.enabled /\ msc.mode = MSC_MODE_MULTI
    /\ output_active = "on"
    /\ Len(msc.win_list) = 2
    /\ LinkedAndPublished
    /\ msc.user_count = 1

\* what C30 says of the counter and the flag, whatever activate returns:
\* an activate that fails at once changes nothing, one that goes on has
\* added one to a counter that was not negative, one that fails under the
\* mutex takes that one back, and none of the failing steps writes the
\* enabled flag; a deactivate that finds capture not enabled changes nothing
ActivateKeeps ==
    /\ (ret'.op = "activate" /\ \A u \in Threads : pc[u] # "act_lock")
          => msc.user_count < 0 /\ ret'.err = "ENODEV" /\ msc' = msc
    /\ \A t \in Threads :
          /\ (pc[t] = "idle" /\ pc'[t] = "act_lock")
                => /\ msc.user_count >= 0
                   /\ msc'.user_count = msc.user_count + 1
                   /\ msc'.enabled = msc.enabled
          /\ (pc[t] = "act_lock" /\ pc'[t] = "idle" /\ ret'.err # "OK")
                => /\ msc'.user_count = msc.user_count - 1
                   /\ msc'.enabled = msc.enabled
    /\ (ret'.op = "deactivate" /\ ~msc.enabled)
          => msc'.user_count = msc.user_count /\ msc'.enabled = msc.enabled

\* C30 (as amended): activate fails with -ENODEV when the usage counter is
\* negative, and with -EBUSY when the counter is not negative and a reader
\* session is open; a failed activate leaves the usage counter and the
\* enabled flag as before the call, and a deactivate that finds capture not
\* enabled changes neither.
C30_FailedActivate ==
    [][/\ ActivateKeeps
       /\ \A t \in Threads :
             (pc[t] = "act_lock" /\ pc'[t] = "idle" /\ msc.iter_list # <<>>)
                => ret'.err = "EBUSY"]_vars

\* C30 as stated: activate fails with -EBUSY whenever a reader session is
\* open.
C30_BusyWithReader ==
    [][/\ ActivateKeeps
       /\ (ret'.op = "activate" /\ msc.iter_list # <<>>)
             => ret'.err = "EBUSY"]_vars

\* an activate on an allocated buffer has been refused because a reader
\* session is open; the counter is 0 and capture is not enabled
C30_Witness ==
    /\ ret = [op |-> "activate", err |-> "EBUSY", n |-> 0]
    /\ msc.iter_list # <<>>
    /\ msc.user_count = 0 /\ ~msc.enabled
    /\ msc.win_list # <<>>
    /\ output_active = "off"

\* the live mappings of the sessions 1..n
RECURSIVE LiveMappings(_)
LiveMappings(n) == IF n = 0 THEN 0 ELSE LiveMappings(n - 1) + vmas[n]

\* C31: the mapping counter is never negative, and with no mmap or close
\* handler under way it is the number of live mappings of the buffer.
C31_MappingCount ==
    /\ msc.mmap_count >= 0
    /\ (\A t \in Threads : pc[t] \notin {"mm_check", "vc_lock"})
          => msc.mmap_count = LiveMappings(NSessions)

\* C32: no read of a session dereferences a window of its iterator that is
\* not a window of the buffer's current list.
C32_IterWindowLive ==
    \A s \in Sessions : files[s].open => ~files[s].uaf

\* C33: a call of msc_current_win_bytes() or msc_sg_oldest_win() leaves the
\* usage counter as it found it, whatever it returns, and a sequential read
\* that took a reference gives it back when it returns.
C33_ReferenceReleased ==
    [][/\ ret'.op \in {"win_bytes", "sg_oldest"}
             => msc'.user_count = msc.user_count
       /\ \A t \in Threads :
             (pc[t] = "rd_body" /\ pc'[t] = "idle")
                => msc'.user_count = msc.user_count - 1]_vars

\* the addresses of the bytes of the contiguous region
Region == {msc.base + i : i \in 0..(msc.nr_pages * PAGE_SIZE - 1)}

\* C34: in single mode a read copies only bytes of the region allocated at
\* the time of the read.
C34_ReadInsideRegion ==
    [][\A t \in Threads :
          (/\ pc[t] = "rd_body" /\ pc'[t] = "idle"
           /\ msc.mode = MSC_MODE_SINGLE /\ files[loc[t].s].rec)
          => \A i \in (Len(files[loc[t].s].out) + 1)..Len(files'[loc[t].s].out) :
                files'[loc[t].s].out[i] \in Region]_vars

\* C35: whatever the headers of the oldest window and whatever the
\* registers read, msc_sg_oldest_win() writes at most nr_blocks entries,
\* lists no block twice, and returns the number of entries written.
C35_SgEntries ==
    (msc.enabled /\ msc.mode = MSC_MODE_MULTI /\ msc.user_count >= 0) =>
       \A reg_old \in NwsaRegs, reg_cur \in NwsaRegs :
          \E r \in {msc_sg_oldest_win(S0, reg_old, reg_cur)} :
             /\ r.n = Len(r.sg)
             /\ \A i \in DOMAIN r.sg, j \in DOMAIN r.sg :
                   i # j => r.sg[i] # r.sg[j]
             /\ r.sg # << >>
                   => Len(r.sg) <= wins[msc_oldest_window(S0, reg_old)].nr_blocks

\* C36: when a single-mode capture is disabled, the saved data size is the
\* offset of the write pointer from the base of the region, for every page
\* count and every place of the write pointer in the region.
C36_SavedSize ==
    (msc.enabled /\ msc.mode = MSC_MODE_SINGLE) =>
       \A off \in 0..(msc.nr_pages * PAGE_SIZE - 1), wrap \in BOOLEAN :
          intel_th_msc_deactivate(S0, wrap, msc.base_addr + off, 0).msc.single_sz = off

\* C37: with no nr_pages or mode write under way, msc_max_blocks() returns 0
\* when no buffer is allocated and the largest block count of the windows
\* of an allocated multi-mode buffer.
C37_MaxBlocks ==
    (\A t \in Threads : pc[t] \notin {"np_free", "np_scan", "np_xchg", "ms_free"}) =>
       /\ (msc.nr_pages = 0 /\ msc.win_list = <<>>) => msc_max_blocks(msc) = 0
       /\ (msc.mode = MSC_MODE_MULTI /\ msc.win_list # <<>>) =>
             /\ \A w \in Range(msc.win_list) : wins[w].nr_blocks <= msc_max_blocks(msc)
             /\ \E w \in Range(msc.win_list) : wins[w].nr_blocks = msc_max_blocks(msc)

\* the preferences of the rules list, in list order
Prefs(O) == [i \in DOMAIN O.rules_list |-> O.rule[O.rules_list[i]].pref]

\* C38: after every fib_nl_newrule and fib_nl_delrule call the rules list is
\* in non-decreasing preference order, and a rule just added stands after
\* every rule of its preference.
C38_Ordered ==
    [][ret'.op \in {"newrule", "delrule"} =>
          /\ \A i \in DOMAIN ops'.rules_list, j \in DOMAIN ops'.rules_list :
                i < j => Prefs(ops')[i] <= Prefs(ops')[j]
          /\ (ret'.op = "newrule" /\ ret'.err = "OK") =>
                \A i \in DOMAIN ops'.rules_list, j \in DOMAIN ops'.rules_list :
                   (/\ ops'.rules_list[j] \notin DOMAIN ops.rule
                    /\ i # j /\ Prefs(ops')[i] = Prefs(ops')[j]) => i < j]_vars

\* a rule was added, and an added rule (no default rule is a nop) stands
\* behind another rule of its preference
C38_Witness ==
    /\ ret.op = "newrule" /\ ret.err = "OK"
    /\ \E i \in DOMAIN ops.rules_list, j \in DOMAIN ops.rules_list :
          /\ i < j /\ Prefs(ops)[i] = Prefs(ops)[j]
          /\ ops.rule[ops.rules_list[j]].action = FR_ACT_NOP

\* the goto rules of the list
GotoRules(O) == {r \in Range(O.rules_list) : O.rule[r].action = FR_ACT_GOTO}

\* C39: unresolved_rules is the number of goto rules of the list whose
\* resolved target is NULL, nr_goto_rules is the number of goto rules of the
\* list, and every resolved target is a rule of the list whose preference
\* is the goto rule's target preference.
C39_GotoAccounts ==
    /\ ops.unresolved_rules =
          Cardinality({r \in GotoRules(ops) : ops.rule[r].ctarget = NULL})
    /\ ops.nr_goto_rules = Cardinality(GotoRules(ops))
    /\ \A r \in Range(ops.rules_list) :
          ops.rule[r].ctarget # NULL =>
             /\ ops.rule[r].ctarget \in Range(ops.rules_list)
             /\ ops.rule[ops.rule[r].ctarget].pref = ops.rule[r].target

\* a deletion has left one goto resolved and another unresolved
C39_Witness ==
    /\ ret.op = "delrule" /\ ret.err = "OK"
    /\ \E r \in GotoRules(ops), q \in GotoRules(ops) :
          ops.rule[r].ctarget # NULL /\ ops.rule[q].ctarget = NULL

\* the visits of a walk at which a goto is followed
Jumps(O, fl, visits) ==
    {k \in DOMAIN visits : /\ visits[k] \in fl.hit
                           /\ O.rule[visits[k]].action = FR_ACT_GOTO
                           /\ O.rule[visits[k]].ctarget # NULL}

\* C40: every goto rule of the list aims at a preference strictly greater
\* than its own, and fib_rules_lookup terminates for every flow, following
\* gotos only to rules of strictly greater preference and visiting no rule
\* twice.
C40_ForwardOnly ==
    /\ \A r \in GotoRules(ops) : ops.rule[r].target > ops.rule[r].pref
    /\ \A fl \in Flows : \E res \in {fib_rules_lookup(ops, fl, 1, << >>)} :
          /\ res.ended /\ ~res.stray
          /\ \A k \in DOMAIN res.visits, l \in DOMAIN res.visits :
                k # l => res.visits[k] # res.visits[l]
          /\ \A k \in Jumps(ops, fl, res.visits) :
                /\ k < Len(res.visits)
                /\ res.visits[k + 1] = ops.rule[res.visits[k]].ctarget
                /\ ops.rule[res.visits[k + 1]].pref > ops.rule[res.visits[k]].pref

\* a lookup has run on a list in which some flow follows two gotos in a row
C40_Witness ==
    /\ ret.op = "lookup"
    /\ \E fl \in Flows : \E res \in {fib_rules_lookup(ops, fl, 1, << >>)} :
          /\ res.err = ret.err
          /\ Cardinality(Jumps(ops, fl, res.visits)) >= 2

====
